---- MODULE Spec2Model ----
(***************************************************************************)
(* Ingestion pipeline of the replay package: stream reader, decoder,       *)
(* router, batch accumulator, staging store, cursor and the per-artifact   *)
(* orchestrator (ingestSession / ingestSessions / ingestIncremental).      *)
(*                                                                         *)
(* The database is the environment of the pipeline.  Every statement sent  *)
(* to it either succeeds or raises; a raise is a nondeterministic choice   *)
(* of the action that sends the statement (this covers connection loss as  *)
(* well as constraint violations of columns the model does not carry).     *)
(* Rows are abstracted to their primary key, their session and their kind; *)
(* wall-clock fields (durations, startedAt, updatedAt) are left out.       *)
(***************************************************************************)
EXTENDS Integers, Sequences, FiniteSets, TLC

\* ------------------------------------------------------------------------
\* Bounds
\* ------------------------------------------------------------------------
MaxLines == 2
MaxBatchSize == 2
MaxRuns == 2
MaxTime == 2
MaxList == 2
MaxKeys == 2
MaxOps == 4

\* ------------------------------------------------------------------------
\* Values
\* ------------------------------------------------------------------------
NULL == "null"

None == [tag |-> "None"]
Some(v) == [tag |-> "Some", value |-> v]

Left(e) == [tag |-> "Left", left |-> e]
Right(v) == [tag |-> "Right", right |-> v]

\* The closed set of record kinds of the AnyEntry schema.
EntryTypes ==
  {"user", "assistant", "summary", "custom-title", "file-history-snapshot",
   "progress", "queue-operation", "system"}

\* Raw lines.  "" is a blank line, "{bad" is text that is not JSON, "other"
\* is a JSON object whose type is outside the closed set, and an entry type
\* stands for a JSON object that validates as an entry of that type.
BlankLine == ""
BadJsonLine == "{bad"
BadSchemaLine == "other"
LineAlphabet == {BlankLine, BadJsonLine, BadSchemaLine, "user", "summary"}

\* Scratch tables in the order ingestSession flushes its accumulators,
\* which is also the order of the flush calls inside flushAllStaging.
StagingTables ==
  <<"sessions_staging", "messages_staging", "tool_calls_staging",
    "progress_events_staging", "queue_operations_staging",
    "system_events_staging", "file_history_staging">>

ProductionTables ==
  <<"sessions", "messages", "tool_calls", "progress_events",
    "queue_operations", "system_events", "file_history">>

NumTables == 7

StagingSet == {StagingTables[i] : i \in 1..NumTables}
ProductionSet == {ProductionTables[i] : i \in 1..NumTables}

TableIndex(t) == CHOOSE i \in 1..NumTables : StagingTables[i] = t

EmptyStaging == [t \in StagingSet |-> <<>>]
EmptyPerm == [t \in ProductionSet |-> {}]

\* ------------------------------------------------------------------------
\* Stream reader
\* ------------------------------------------------------------------------
RECURSIVE FilterBlank(_)
FilterBlank(raw) ==
  IF raw = <<>> THEN <<>>
  ELSE IF Head(raw) = BlankLine THEN FilterBlank(Tail(raw))
  ELSE <<Head(raw)>> \o FilterBlank(Tail(raw))

\* The lines delivered last first.
streamJSONLLastFirst(raw) ==
  LET kept == FilterBlank(raw)
  IN [i \in 1..Len(kept) |-> [lineNum |-> Len(kept) + 1 - i, line |-> kept[Len(kept) + 1 - i]]]

\* streamJSONL: drop blank lines, then number what is left from 1.
streamJSONL(raw) ==
  LET kept == FilterBlank(raw)
  IN [i \in 1..Len(kept) |-> [lineNum |-> i, line |-> kept[i]]]

\* ------------------------------------------------------------------------
\* Decoder
\* ------------------------------------------------------------------------
ParseError(lineNum, line) ==
  [tag |-> "ParseError", line |-> lineNum, content |-> line]

\* decodeEntry that takes any JSON object for an entry.
decodeEntryAnyObject(lineNum, line) ==
  IF line = BadJsonLine THEN Left(ParseError(lineNum, line))
  ELSE Right([type |-> line])

\* decodeEntry: JSON.parse, then the AnyEntry schema; both failures give the
\* same ParseError shape.
decodeEntry(lineNum, line) ==
  IF line = BadJsonLine THEN Left(ParseError(lineNum, line))
  ELSE IF line \notin EntryTypes THEN Left(ParseError(lineNum, line))
  ELSE Right([type |-> line])

decodeEntryEither(lineNum, line) == decodeEntry(lineNum, line)

decodeEntryWithMetadata(lineNum, line) ==
  LET r == decodeEntry(lineNum, line)
  IN IF r.tag = "Left" THEN r
     ELSE Right([lineNum |-> lineNum, entry |-> r.right])

\* ------------------------------------------------------------------------
\* Router
\* ------------------------------------------------------------------------
Row(id, sessionId, kind) == [id |-> id, session_id |-> sessionId, kind |-> kind]

toMessageRow(entry, sessionId) == Row(NULL, sessionId, entry.type)
toProgressRow(entry, sessionId) == Row(NULL, sessionId, entry.type)
toSessionMetadataRow(entry, sessionId) == Row(sessionId, NULL, entry.type)
toFileHistoryRow(entry, sessionId) == Row(NULL, sessionId, entry.type)
toQueueOperationRow(entry, sessionId) == Row(NULL, sessionId, entry.type)
toSystemEventRow(entry, sessionId) == Row(NULL, sessionId, entry.type)

Routed(table, row, lineNum) == [table |-> table, row |-> row, lineNum |-> lineNum]

\* A skip that forgets the kind it skipped.
SkippedEntryWithoutType(entry, lineNum) ==
  [table |-> "skip", reason |-> <<"Unknown entry type: ", "undefined">>,
   entryType |-> "undefined", lineNum |-> lineNum]

\* The default branch: entry.type ?? 'undefined' (an entry without a type has
\* type NULL here).
SkippedEntry(entry, lineNum) ==
  LET entryType == IF entry.type = NULL THEN "undefined" ELSE entry.type
  IN [table |-> "skip", reason |-> <<"Unknown entry type: ", entryType>>,
      entryType |-> entryType, lineNum |-> lineNum]

\* routeEntry sending an assistant entry to the tool-calls table.
routeEntryAssistantToToolCalls(decoded, sessionId) ==
  IF decoded.entry.type = "assistant"
  THEN Routed("tool_calls_staging", toMessageRow(decoded.entry, sessionId), decoded.lineNum)
  ELSE Routed("messages_staging", toMessageRow(decoded.entry, sessionId), decoded.lineNum)

routeEntry(decoded, sessionId) ==
  LET entry == decoded.entry
      lineNum == decoded.lineNum
  IN CASE entry.type \in {"user", "assistant"} ->
            Routed("messages_staging", toMessageRow(entry, sessionId), lineNum)
       [] entry.type = "progress" ->
            Routed("progress_events_staging", toProgressRow(entry, sessionId), lineNum)
       [] entry.type = "summary" ->
            Routed("sessions_staging", toSessionMetadataRow(entry, sessionId), lineNum)
       [] entry.type = "file-history-snapshot" ->
            Routed("file_history_staging", toFileHistoryRow(entry, sessionId), lineNum)
       [] entry.type = "queue-operation" ->
            Routed("queue_operations_staging", toQueueOperationRow(entry, sessionId), lineNum)
       [] entry.type = "system" ->
            Routed("system_events_staging", toSystemEventRow(entry, sessionId), lineNum)
       [] entry.type = "custom-title" ->
            Routed("sessions_staging", Row(NULL, NULL, entry.type), lineNum)
       [] OTHER -> SkippedEntry(entry, lineNum)

\* ------------------------------------------------------------------------
\* Staging store
\* ------------------------------------------------------------------------
\* A database is its permanent tables (each a set of rows, unique on id) and
\* its scratch tables (each a sequence of rows, no constraint).
Db(perm_, staging_) == [perm |-> perm_, staging |-> staging_]

\* The insert statement reporting its rows inserted without storing them.
insertToStagingNothing(stg, table, rows) == stg

\* insertToStaging: an empty batch returns 0 without touching the database.
insertToStaging(stg, table, rows) ==
  IF Len(rows) = 0 THEN stg
  ELSE [stg EXCEPT ![table] = @ \o rows]

\* The upsert with ON CONFLICT (id) DO UPDATE: RETURNING yields a row for
\* every row read, inserted or not.
RECURSIVE InsertOnConflictDoUpdate(_, _, _)
InsertOnConflictDoUpdate(tbl, rows, inserted) ==
  IF rows = <<>> THEN [ok |-> TRUE, tbl |-> tbl, inserted |-> inserted]
  ELSE LET r == Head(rows)
       IN IF r.id = NULL THEN [ok |-> FALSE, tbl |-> tbl, inserted |-> inserted]
          ELSE InsertOnConflictDoUpdate(tbl \cup {r}, Tail(rows), inserted + 1)

\* INSERT INTO <permanent> SELECT ... FROM <scratch> ON CONFLICT (id) DO
\* NOTHING RETURNING 1.  A NULL id violates the primary key and raises.
RECURSIVE InsertOnConflictDoNothing(_, _, _)
InsertOnConflictDoNothing(tbl, rows, inserted) ==
  IF rows = <<>> THEN [ok |-> TRUE, tbl |-> tbl, inserted |-> inserted]
  ELSE LET r == Head(rows)
       IN IF r.id = NULL THEN [ok |-> FALSE, tbl |-> tbl, inserted |-> inserted]
          ELSE IF \E x \in tbl : x.id = r.id
               THEN InsertOnConflictDoNothing(tbl, Tail(rows), inserted)
               ELSE InsertOnConflictDoNothing(tbl \cup {r}, Tail(rows), inserted + 1)

\* The flush function counting the scratch rows (SELECT COUNT(*) FROM the
\* scratch table) instead of the rows its INSERT returned.
FlushStagingFunctionCountingScratch(i, db) ==
  LET prod == ProductionTables[i]
      stag == StagingTables[i]
      res == InsertOnConflictDoNothing(db.perm[prod], db.staging[stag], 0)
  IN IF res.ok
     THEN [ok |-> TRUE,
           db |-> Db([db.perm EXCEPT ![prod] = res.tbl],
                     [db.staging EXCEPT ![stag] = <<>>]),
           inserted_count |-> Len(db.staging[stag])]
     ELSE [ok |-> FALSE, db |-> db, inserted_count |-> 0]

\* Body shared by the flush_<table>_staging() SQL functions: upsert, count,
\* then TRUNCATE the scratch table.  A raise leaves the database as it was.
FlushStagingFunction(i, db) ==
  LET prod == ProductionTables[i]
      stag == StagingTables[i]
      res == InsertOnConflictDoNothing(db.perm[prod], db.staging[stag], 0)
  IN IF res.ok
     THEN [ok |-> TRUE,
           db |-> Db([db.perm EXCEPT ![prod] = res.tbl],
                     [db.staging EXCEPT ![stag] = <<>>]),
           inserted_count |-> res.inserted]
     ELSE [ok |-> FALSE, db |-> db, inserted_count |-> 0]

flush_sessions_staging(db) == FlushStagingFunction(1, db)
flush_messages_staging(db) == FlushStagingFunction(2, db)
flush_tool_calls_staging(db) == FlushStagingFunction(3, db)
flush_progress_events_staging(db) == FlushStagingFunction(4, db)
flush_queue_operations_staging(db) == FlushStagingFunction(5, db)
flush_system_events_staging(db) == FlushStagingFunction(6, db)
flush_file_history_staging(db) == FlushStagingFunction(7, db)

FlushCall(i, db) ==
  CASE i = 1 -> flush_sessions_staging(db)
    [] i = 2 -> flush_messages_staging(db)
    [] i = 3 -> flush_tool_calls_staging(db)
    [] i = 4 -> flush_progress_events_staging(db)
    [] i = 5 -> flush_queue_operations_staging(db)
    [] i = 6 -> flush_system_events_staging(db)
    [] i = 7 -> flush_file_history_staging(db)

\* flushSessions .. flushFileHistory: SELECT flush_<table>_staging() as one
\* statement; dbOk is whether the statement reaches the function.
flushStagingTable(i, db, dbOk) ==
  IF dbOk THEN FlushCall(i, db)
  ELSE [ok |-> FALSE, db |-> db, inserted_count |-> 0]

\* truncate_staging_tables(): the SQL function names four scratch tables.
truncate_staging_tables(stg) ==
  [t \in StagingSet |->
     IF t \in {"sessions_staging", "messages_staging", "tool_calls_staging",
               "progress_events_staging"}
     THEN <<>> ELSE stg[t]]

\* The statements of the transaction callback of flushAllStaging, run in
\* order on the transaction's view of the database.  failAt is the call the
\* environment makes raise (0: none).
RECURSIVE TrxFlushes(_, _, _, _)
TrxFlushes(i, db, failAt, counts) ==
  IF i > NumTables THEN [ok |-> TRUE, db |-> db, counts |-> counts, failed |-> 0]
  ELSE IF i = failAt THEN [ok |-> FALSE, db |-> db, counts |-> counts, failed |-> i]
  ELSE LET r == FlushCall(i, db)
       IN IF ~r.ok THEN [ok |-> FALSE, db |-> db, counts |-> counts, failed |-> i]
          ELSE TrxFlushes(i + 1, r.db, failAt, Append(counts, r.inserted_count))

\* flushAllStaging with the seven statements sent outside a transaction:
\* what ran before the raise stays.
flushAllStagingNoTransaction(db, failAt) ==
  LET t == TrxFlushes(1, db, failAt, <<>>)
  IN IF t.ok THEN [ok |-> TRUE, db |-> t.db, counts |-> t.counts, cause |-> NULL]
     ELSE [ok |-> FALSE, db |-> t.db, counts |-> <<>>, cause |-> StagingTables[t.failed]]

\* flushAllStaging: db.transaction().execute commits when the callback
\* returns and rolls back when it throws.
flushAllStaging(db, failAt) ==
  LET t == TrxFlushes(1, db, failAt, <<>>)
  IN IF t.ok THEN [ok |-> TRUE, db |-> t.db, counts |-> t.counts, cause |-> NULL]
     ELSE [ok |-> FALSE, db |-> db, counts |-> <<>>, cause |-> StagingTables[t.failed]]

RECURSIVE SumSeq(_)
SumSeq(s) == IF s = <<>> THEN 0 ELSE Head(s) + SumSeq(Tail(s))

\* ------------------------------------------------------------------------
\* Batch accumulator
\* ------------------------------------------------------------------------
NewAccumulator == [items |-> <<>>, totalFlushed |-> 0, flushCount |-> 0]

\* flush() that leaves the buffer as it is.
doFlushKeepingBuffer(acc, table, stg, dbOk) ==
  [ok |-> TRUE, acc |-> acc, staging |-> stg, flushed |-> FALSE]

\* doFlush with flushFn = insertToStaging on `table`; dbOk is the outcome of
\* the insert statement.  An empty buffer makes no database call.
doFlush(acc, table, stg, dbOk) ==
  IF Len(acc.items) = 0
  THEN [ok |-> TRUE, acc |-> acc, staging |-> stg, flushed |-> FALSE]
  ELSE IF ~dbOk
  THEN [ok |-> FALSE, acc |-> acc, staging |-> stg, flushed |-> FALSE]
  ELSE [ok |-> TRUE,
        acc |-> [items |-> <<>>,
                 totalFlushed |-> acc.totalFlushed + Len(acc.items),
                 flushCount |-> acc.flushCount + 1],
        staging |-> insertToStaging(stg, table, acc.items),
        flushed |-> TRUE]

add(acc, item, batchSize, table, stg, dbOk) ==
  LET a1 == [acc EXCEPT !.items = Append(@, item)]
  IN IF Len(a1.items) >= batchSize
     THEN doFlush(a1, table, stg, dbOk)
     ELSE [ok |-> TRUE, acc |-> a1, staging |-> stg, flushed |-> FALSE]

\* The steps of add, doFlush, getState and reset on the Ref that holds the
\* accumulator state.

\* The new item put in front of the buffer.
PrependItem(s, item) == [s EXCEPT !.items = <<item>> \o @]

\* add, first step: Ref.update appending the item.
AppendItem(s, item) == [s EXCEPT !.items = Append(@, item)]

\* The threshold test with > in place of >=.
ThresholdExceeded(s, batchSize) == Len(s.items) > batchSize

\* add, second step: state.items.length >= batchSize.
ThresholdReached(s, batchSize) == Len(s.items) >= batchSize

\* doFlush, last step: Ref.update after flushFn returned count.
FlushUpdate(s, count) ==
  [items |-> <<>>, totalFlushed |-> s.totalFlushed + count, flushCount |-> s.flushCount + 1]

\* The three fields read one by one across an update of the Ref.
getStateTorn(cur, prev) ==
  [items |-> prev.items, totalFlushed |-> cur.totalFlushed, flushCount |-> cur.flushCount]

\* getState: Ref.get, the value the Ref holds now (prev is the value it held
\* before its last update).
getState(cur, prev) == cur

\* ------------------------------------------------------------------------
\* Cursor
\* ------------------------------------------------------------------------
\* Date.toISOString keeps the millisecond value; new Date(iso) reads it back.
toISOString(t) == <<"iso", t>>
ParseDate(s) == s[2]

\* The value setCursor upserts under CURSOR_KEY.
CursorJson(timestamp, sessionId, sessionsProcessed) ==
  [timestamp |-> toISOString(timestamp),
   lastSessionId |-> sessionId,
   sessionsProcessed |-> sessionsProcessed]

\* getCursor: Option.none without a row, else the decoded value.
getCursor(state) ==
  IF state.tag = "None" THEN None
  ELSE Some([timestamp |-> ParseDate(state.value.timestamp),
             lastSessionId |-> state.value.lastSessionId,
             sessionsProcessed |-> state.value.sessionsProcessed])

\* The gate letting through a candidate at the cursor's own timestamp.
shouldProcessSessionInclusive(cursor, sessionMtime) ==
  IF cursor.tag = "None" THEN TRUE
  ELSE sessionMtime >= cursor.value.timestamp

shouldProcessSession(cursor, sessionMtime) ==
  IF cursor.tag = "None" THEN TRUE
  ELSE sessionMtime > cursor.value.timestamp

\* setCursor(db, timestamp, sessionId?, sessionsProcessed?): the value written,
\* with the defaults of the optional arguments.
setCursorValue(timestamp, sessionId, sessionsProcessed) ==
  CursorJson(timestamp,
             IF sessionId.tag = "None" THEN "" ELSE sessionId.value,
             IF sessionsProcessed.tag = "None" THEN 1 ELSE sessionsProcessed.value)

\* ------------------------------------------------------------------------
\* Ingestion configuration
\* ------------------------------------------------------------------------
DEFAULT_BATCH_SIZE == 1000

\* IngestConfig: every field is optional (None: left undefined).
Configs ==
  [batchSize : {Some(b) : b \in 1..MaxBatchSize},
   updateCursor : {None, Some(FALSE), Some(TRUE)},
   resilient : {None, Some(FALSE)}]

\* Configurations of the runs over several artifacts, which hold one line
\* each: only the cursor switch varies.
ListConfigs ==
  {c \in Configs : c.batchSize = Some(1) /\ c.resilient = None}

\* config.batchSize ?? DEFAULT_INGEST_CONFIG.batchSize
BatchSizeOf(config) ==
  IF config.batchSize.tag = "None" THEN DEFAULT_BATCH_SIZE ELSE config.batchSize.value

\* The resilient flag ignored: always the default.
ResilientAlways(config) == TRUE

\* config.resilient ?? DEFAULT_INGEST_CONFIG.resilient
ResilientOf(config) ==
  IF config.resilient.tag = "None" THEN TRUE ELSE config.resilient.value

\* config.updateCursor === true
ShouldUpdateCursorOnlyIfTrue(config) == config.updateCursor = Some(TRUE)

\* config.updateCursor !== false
ShouldUpdateCursor(config) == config.updateCursor # Some(FALSE)

\* ------------------------------------------------------------------------
\* State
\* ------------------------------------------------------------------------
VARIABLES
  files,            \* uuid -> [modifiedAt, lines]: the artifacts on disk
  perm,             \* permanent tables
  staging,          \* scratch tables
  ingestion_state,  \* the row under CURSOR_KEY: None or Some(json value)
  pc,               \* position of the orchestrator
  call,             \* the entry point in progress, its queue and results
  run,              \* locals of the current (or last) ingestSession run
  hist              \* history: runs left to start, artifacts flushed so far,
                    \* and the log of direct store operations

vars == <<files, perm, staging, ingestion_state, pc, call, run, hist>>

Uuids == DOMAIN files

DBError(operation, table, cause) ==
  [tag |-> "DBError", operation |-> operation, table |-> table, cause |-> cause]
IOError(path, operation, cause) ==
  [tag |-> "IOError", path |-> path, operation |-> operation, cause |-> cause]

\* The file system's own error; failedAt tells whether the open or a later
\* read of the file failed.
PlatformError(failedAt) == [tag |-> "PlatformError", failedAt |-> failedAt]

\* The Effect handed to Stream.unwrap: it obtains the FileSystem service and
\* returns fs.stream(filePath).  Neither step fails: the file is opened when
\* the returned stream is first pulled.
OpenByteStream(filePath, failedAt) == Right([path |-> filePath, failedAt |-> failedAt])

\* Effect.mapError of that Effect: a failure becomes IOError 'open'.
MapErrorOpen(filePath, exit) ==
  IF exit.tag = "Left" THEN Left(IOError(filePath, "open", exit.left)) ELSE exit

\* The closing Stream.catchAll: every error of the pipeline above it becomes
\* IOError 'read'.
CatchAllRead(filePath, error) == IOError(filePath, "read", error)

\* The error streamJSONL fails with when the file system fails at failedAt.
streamJSONLError(filePath, failedAt) ==
  LET unwrapped == MapErrorOpen(filePath, OpenByteStream(filePath, failedAt))
  IN IF unwrapped.tag = "Left"
     THEN CatchAllRead(filePath, unwrapped.left)
     ELSE CatchAllRead(filePath, PlatformError(unwrapped.right.failedAt))

NoRun ==
  [uuid |-> NULL, config |-> [batchSize |-> None, updateCursor |-> None, resilient |-> None],
   pos |-> 0, acc |-> [t \in StagingSet |-> NewAccumulator],
   totalProcessed |-> 0, skipped |-> 0, parseErrors |-> 0,
   flushResult |-> None, status |-> "none", error |-> None, stats |-> None,
   flushInvoked |-> FALSE, setCursorInvoked |-> FALSE, setCursorArgs |-> None,
   cursorBefore |-> None, permBefore |-> EmptyPerm, stagingAtFlush |-> EmptyStaging,
   prev |-> None, routed |-> <<>>, raised |-> None, robbed |-> FALSE, ops |-> <<>>]

\* The history of the store operations of a run: r.ops.
StoreOp(op, table) == [op |-> op, table |-> table]
LogOp(r, op, table) == [r EXCEPT !.ops = Append(@, StoreOp(op, table))]
LogInsert(r, before, after, table) ==
  IF after # before THEN LogOp(r, "insert", table) ELSE r

\* What a run remembers of the run that ended before it began.
RunSummary(r) ==
  IF r.status = "none" THEN None
  ELSE Some([uuid |-> r.uuid, status |-> r.status,
             totalStagingInserts |->
               IF r.status = "done" THEN r.stats.value.totalStagingInserts ELSE 0])

\* ingestSession, lines 436-439 and 484-486: the locals of a fresh run.
BeginRun(u, config) ==
  [NoRun EXCEPT !.uuid = u, !.config = config, !.status = "running",
                !.cursorBefore = ingestion_state, !.permBefore = perm,
                !.prev = RunSummary(run)]

\* The stats record ingestSession returns (Date-valued fields left out).
IngestionStats(r) ==
  [sessionId |-> r.uuid,
   totalEntriesProcessed |-> r.totalProcessed,
   totalStagingInserts |-> SumSeq([i \in 1..NumTables |-> r.acc[StagingTables[i]].totalFlushed]),
   totalProductionInserts |-> SumSeq(r.flushResult.value),
   batchCount |-> SumSeq([i \in 1..NumTables |-> r.acc[StagingTables[i]].flushCount]),
   parseErrors |-> r.parseErrors,
   entriesSkipped |-> r.skipped]

\* A failure turned into a value: the run yields the stats gathered so far.
FailRunWithStats(r, err) ==
  [r EXCEPT !.status = "failed", !.error = Some(err),
            !.stats = Some(IngestionStats([r EXCEPT !.flushResult = Some(<<>>)]))]

\* A failure in the error channel of the Effect: the run yields no value,
\* and ingestSessions / ingestIncremental propagate it (yield*).
FailRun(r, err) == [r EXCEPT !.status = "failed", !.error = Some(err)]

\* The run returns its stats (steps 7 of ingestSession).
CompleteRun(r) == [r EXCEPT !.status = "done", !.stats = Some(IngestionStats(r))]

EndFailed(r, err) ==
  /\ run' = FailRun(r, err)
  /\ pc' = "idle"
  /\ call' = [call EXCEPT !.status = "failed", !.queue = <<>>]

EndDone(r) ==
  /\ run' = CompleteRun(r)
  /\ pc' = IF call.entry = "ingestSession" THEN "idle" ELSE "loop"
  /\ call' = [call EXCEPT !.results = Append(@, run'.stats.value),
                          !.queue = Tail(@),
                          !.status = IF call.entry = "ingestSession" THEN "done" ELSE @]

\* History: the store operation of the step at pc raised err.
Raise(r, err) == [r EXCEPT !.raised = Some([at |-> pc, error |-> err])]

\* A store operation of the run raised err; the yield* on it fails the run
\* with err.
StoreFailed(r, err) == EndFailed(Raise(r, err), err)

\* ------------------------------------------------------------------------
\* Sorting and input lists
\* ------------------------------------------------------------------------
RECURSIVE SeqsUpTo(_, _)
SeqsUpTo(S, n) ==
  IF n = 0 THEN {<<>>}
  ELSE LET shorter == SeqsUpTo(S, n - 1)
       IN shorter \cup {Append(q, x) : q \in {p \in shorter : Len(p) = n - 1}, x \in S}

Perms(S) == {q \in SeqsUpTo(S, Cardinality(S)) :
               Len(q) = Cardinality(S) /\ {q[i] : i \in 1..Len(q)} = S}

\* The filter with its test negated: it keeps what the cursor rules out.
FilterSeqRejected(q, cursor) ==
  SelectSeq(q, LAMBDA u : ~shouldProcessSession(cursor, files[u].modifiedAt))

RECURSIVE FilterSeq(_, _)
FilterSeq(q, cursor) ==
  IF q = <<>> THEN <<>>
  ELSE IF shouldProcessSession(cursor, files[Head(q)].modifiedAt)
       THEN <<Head(q)>> \o FilterSeq(Tail(q), cursor)
       ELSE FilterSeq(Tail(q), cursor)

\* The comparator with its operands swapped: newest first.
CompareMtimeDescending(a, b) == files[b].modifiedAt - files[a].modifiedAt

\* Comparator of the sort in ingestIncremental.
CompareMtime(a, b) == files[a].modifiedAt - files[b].modifiedAt

\* Array.prototype.sort is stable: equal keys keep their input order.
RECURSIVE InsertSorted(_, _)
InsertSorted(sorted, x) ==
  IF sorted = <<>> THEN <<x>>
  ELSE IF CompareMtime(Head(sorted), x) <= 0
       THEN <<Head(sorted)>> \o InsertSorted(Tail(sorted), x)
       ELSE <<x>> \o sorted

RECURSIVE SortByMtime(_)
SortByMtime(q) ==
  IF q = <<>> THEN <<>>
  ELSE InsertSorted(SortByMtime(SubSeq(q, 1, Len(q) - 1)), q[Len(q)])

\* ------------------------------------------------------------------------
\* Initial states
\* ------------------------------------------------------------------------
FileCatalog == SeqsUpTo(LineAlphabet, MaxLines)

InitRest(budget) ==
  /\ perm = EmptyPerm
  /\ staging = EmptyStaging
  /\ ingestion_state = None
  /\ pc = "idle"
  /\ call = [entry |-> "none", config |-> NoRun.config, queue |-> <<>>,
             results |-> <<>>, status |-> "none"]
  /\ run = NoRun
  /\ hist = [budget |-> budget, flushedOK |-> {}, log |-> <<>>]

\* One artifact, any content of the catalog.
Init ==
  /\ files \in [{"s1"} -> [modifiedAt : {1}, lines : FileCatalog]]
  /\ InitRest(MaxRuns)

\* Two artifacts of one summary line each, any modification times.
InitArtifacts ==
  /\ files \in [{"s1", "s2"} -> [modifiedAt : 1..MaxTime, lines : {<<"summary">>}]]
  /\ InitRest(MaxRuns)

\* The same artifacts with room for repeated incremental runs.
InitIncremental ==
  /\ files \in [{"s1", "s2"} -> [modifiedAt : 1..MaxTime, lines : {<<"summary">>}]]
  /\ InitRest(MaxRuns + 1)

\* ------------------------------------------------------------------------
\* Entry points
\* ------------------------------------------------------------------------
\* Every call draws on the run budget: one unit per run it may start, and
\* one unit when it starts none.
CallCost(queue) == IF Len(queue) = 0 THEN 1 ELSE Len(queue)

\* cursor and input are history: what ingestIncremental read and was given.
NewCall(entry, config, queue) ==
  [entry |-> entry, config |-> config, queue |-> queue, results |-> <<>>,
   status |-> "running", cursor |-> None, input |-> <<>>]

\* ingestSession(db, sessionFile, config) called directly.
CallIngestSession(u, config) ==
  /\ pc = "idle"
  /\ hist.budget >= 1
  /\ call' = NewCall("ingestSession", config, <<u>>)
  /\ run' = BeginRun(u, config)
  /\ pc' = "truncate"
  /\ hist' = [hist EXCEPT !.budget = @ - 1]
  /\ UNCHANGED <<files, perm, staging, ingestion_state>>

\* ingestSessions(db, sessionFiles, config): the list is taken as given.
CallIngestSessions(list, config) ==
  /\ pc = "idle"
  /\ hist.budget >= CallCost(list)
  /\ call' = [NewCall("ingestSessions", config, list) EXCEPT !.input = list]
  /\ pc' = "loop"
  /\ hist' = [hist EXCEPT !.budget = @ - CallCost(list)]
  /\ UNCHANGED <<files, perm, staging, ingestion_state, run>>

\* ingestIncremental(db, sessionFiles, config): getCursor, filter by
\* shouldProcessSession, sort ascending by mtime, then ingestSessions.
CallIngestIncremental(list, config, cursorOk) ==
  /\ pc = "idle"
  /\ IF ~cursorOk
     THEN /\ call' = [NewCall("ingestIncremental", config, <<>>) EXCEPT !.status = "failed"]
          /\ pc' = "idle"
          /\ hist.budget >= 1
          /\ hist' = [hist EXCEPT !.budget = @ - 1]
     ELSE LET cursor == getCursor(ingestion_state)
              sessionsToProcess == SortByMtime(FilterSeq(list, cursor))
          IN /\ hist.budget >= CallCost(sessionsToProcess)
             /\ hist' = [hist EXCEPT !.budget = @ - CallCost(sessionsToProcess)]
             /\ IF Len(sessionsToProcess) = 0
                THEN /\ call' = [NewCall("ingestIncremental", config, <<>>) EXCEPT
                                   !.status = "done", !.cursor = cursor, !.input = list]
                     /\ pc' = "idle"
                ELSE /\ call' = [NewCall("ingestIncremental", config, sessionsToProcess) EXCEPT
                                   !.cursor = cursor, !.input = list]
                     /\ pc' = "loop"
  /\ UNCHANGED <<files, perm, staging, ingestion_state, run>>

\* The for-loop of ingestSessions: next session file, or return the results.
IngestSessionsLoop ==
  /\ pc = "loop"
  /\ IF call.queue = <<>>
     THEN /\ pc' = "idle"
          /\ call' = [call EXCEPT !.status = "done"]
          /\ UNCHANGED run
     ELSE /\ run' = BeginRun(Head(call.queue), call.config)
          /\ pc' = "truncate"
          /\ UNCHANGED call
  /\ UNCHANGED <<files, perm, staging, ingestion_state, hist>>

\* ------------------------------------------------------------------------
\* Steps of ingestSession
\* ------------------------------------------------------------------------
\* Step 1: truncateAllStaging.
TruncateAllStaging(dbOk) ==
  /\ pc = "truncate"
  /\ IF dbOk
     THEN /\ staging' = truncate_staging_tables(staging)
          /\ run' = LogOp(run, "truncate", NULL)
          /\ pc' = "stream"
          /\ UNCHANGED call
     ELSE /\ StoreFailed(run, DBError("truncate", NULL, NULL))
          /\ UNCHANGED staging
  /\ UNCHANGED <<files, perm, ingestion_state, hist>>

\* The row of a routed entry; `line` stands for the content that tells the
\* row of one line from the row of another line.
RowOfLine(row, lineNum) ==
  [id |-> row.id, session_id |-> row.session_id, kind |-> row.kind, line |-> lineNum]

\* processRoutedEntry: route, then add to the accumulator of the table.
\* r.routed is the history of the line numbers routeEntry was called with,
\* and the row handed to add carries the line it was made from.
processRoutedEntry(r, decoded, stg, dbOk) ==
  LET routed == routeEntry(decoded, r.uuid)
      r1 == [r EXCEPT !.routed = Append(@, decoded.lineNum)]
  IN IF routed.table = "skip"
     THEN [ok |-> TRUE, run |-> r1, staging |-> stg, skipped |-> TRUE, table |-> "skip"]
     ELSE LET res == add(r1.acc[routed.table], RowOfLine(routed.row, routed.lineNum),
                         BatchSizeOf(r1.config), routed.table, stg, dbOk)
          IN [ok |-> res.ok,
              run |-> [r1 EXCEPT !.acc[routed.table] = res.acc],
              staging |-> res.staging, skipped |-> FALSE, table |-> routed.table]

\* The tap body counting an entry only after the Left test.
TapResilientCountAfterLeft(r, either, stg, dbOk) ==
  IF either.tag = "Left"
  THEN [ok |-> TRUE, run |-> [r EXCEPT !.parseErrors = @ + 1], staging |-> stg,
        table |-> "skip"]
  ELSE LET r1 == [r EXCEPT !.totalProcessed = @ + 1]
           res == processRoutedEntry(r1, either.right, stg, dbOk)
       IN [ok |-> res.ok,
           run |-> IF res.skipped THEN [res.run EXCEPT !.skipped = @ + 1] ELSE res.run,
           staging |-> res.staging, table |-> res.table]

\* The Stream.tap body of the resilient branch (lines 494-520).
TapResilient(r, either, stg, dbOk) ==
  LET r1 == [r EXCEPT !.totalProcessed = @ + 1]
  IN IF either.tag = "Left"
     THEN [ok |-> TRUE, run |-> [r1 EXCEPT !.parseErrors = @ + 1], staging |-> stg,
           table |-> "skip"]
     ELSE LET res == processRoutedEntry(r1, either.right, stg, dbOk)
          IN [ok |-> res.ok,
              run |-> IF res.skipped THEN [res.run EXCEPT !.skipped = @ + 1] ELSE res.run,
              staging |-> res.staging, table |-> res.table]

\* The Stream.tap body of the strict branch (lines 528-546).
TapStrict(r, decoded, stg, dbOk) ==
  LET r1 == [r EXCEPT !.totalProcessed = @ + 1]
      res == processRoutedEntry(r1, decoded, stg, dbOk)
  IN [ok |-> res.ok,
      run |-> IF res.skipped THEN [res.run EXCEPT !.skipped = @ + 1] ELSE res.run,
      staging |-> res.staging, table |-> res.table]

\* decodeStreamResilient: every line becomes an Either; never fails.
decodeStreamResilient(item) ==
  LET result == decodeEntryEither(item.lineNum, item.line)
  IN IF result.tag = "Left" THEN result
     ELSE Right([lineNum |-> item.lineNum, entry |-> result.right])

\* decodeStream: Stream.mapEffect of decodeEntryWithMetadata; a Left is the
\* failure of the stream.
decodeStream(item) == decodeEntryWithMetadata(item.lineNum, item.line)

StreamItems == streamJSONL(files[run.uuid].lines)

\* The read error taken for the end of the file: the run goes on to step 4.
StreamIOErrorAsEnd(failedAt) ==
  /\ pc = "stream"
  /\ run' = [run EXCEPT !.error = Some(streamJSONLError(run.uuid, failedAt))]
  /\ pc' = "flushAcc"
  /\ UNCHANGED <<files, perm, staging, ingestion_state, call, hist>>

\* Step 3, the stream fails: the file cannot be opened (before any line) or
\* a read of it fails (at any point).
StreamIOError(failedAt) ==
  /\ pc = "stream"
  /\ failedAt = "open" => run.pos = 0
  /\ EndFailed(run, streamJSONLError(run.uuid, failedAt))
  /\ UNCHANGED <<files, perm, staging, ingestion_state, hist>>

\* Step 3, one line pulled through decode and tap.
StreamLine(dbOk) ==
  /\ pc = "stream"
  /\ run.pos < Len(StreamItems)
  /\ LET item == StreamItems[run.pos + 1]
         r0 == [run EXCEPT !.pos = @ + 1]
     IN IF ResilientOf(run.config)
        THEN LET res == TapResilient(r0, decodeStreamResilient(item), staging, dbOk)
             IN IF res.ok
                THEN /\ run' = LogInsert(res.run, staging, res.staging, res.table)
                     /\ staging' = res.staging
                     /\ UNCHANGED <<pc, call>>
                ELSE /\ StoreFailed(res.run, DBError("insert_staging", res.table, NULL))
                     /\ UNCHANGED staging
        ELSE LET d == decodeStream(item)
             IN IF d.tag = "Left"
                THEN /\ EndFailed(r0, d.left)
                     /\ UNCHANGED staging
                ELSE LET res == TapStrict(r0, d.right, staging, dbOk)
                     IN IF res.ok
                        THEN /\ run' = LogInsert(res.run, staging, res.staging, res.table)
                             /\ staging' = res.staging
                             /\ UNCHANGED <<pc, call>>
                        ELSE /\ StoreFailed(res.run, DBError("insert_staging", res.table, NULL))
                             /\ UNCHANGED staging
  /\ UNCHANGED <<files, perm, ingestion_state, hist>>

\* Step 3, Stream.runDrain returns at the end of the file.
StreamEnd ==
  /\ pc = "stream"
  /\ run.pos = Len(StreamItems)
  /\ pc' = "flushAcc"
  /\ UNCHANGED <<files, perm, staging, ingestion_state, call, run, hist>>

\* Step 4: flush() of the seven accumulators in order.  failAt is the
\* accumulator whose stage insert the environment makes raise (0: none).
RECURSIVE FlushAccumulators(_, _, _, _)
FlushAccumulators(i, accs, stg, failAt) ==
  IF i > NumTables THEN [ok |-> TRUE, acc |-> accs, staging |-> stg, table |-> NULL]
  ELSE LET t == StagingTables[i]
           res == doFlush(accs[t], t, stg, i # failAt)
       IN IF ~res.ok THEN [ok |-> FALSE, acc |-> accs, staging |-> stg, table |-> t]
          ELSE FlushAccumulators(i + 1, [accs EXCEPT ![t] = res.acc], res.staging, failAt)

\* The store operations of step 4: flush() of each accumulator, with the
\* stage insert it makes when its buffer is not empty.
RECURSIVE FlushOps(_, _)
FlushOps(i, accs) ==
  IF i > NumTables THEN <<>>
  ELSE LET t == StagingTables[i]
       IN <<StoreOp("flush", t)>>
          \o (IF Len(accs[t].items) > 0 THEN <<StoreOp("insert", t)>> ELSE <<>>)
          \o FlushOps(i + 1, accs)

FlushRemainingBatches(failAt) ==
  /\ pc = "flushAcc"
  /\ LET res == FlushAccumulators(1, run.acc, staging, failAt)
     IN IF res.ok
        THEN /\ run' = [run EXCEPT !.acc = res.acc, !.ops = @ \o FlushOps(1, run.acc)]
             /\ staging' = res.staging
             /\ pc' = "flushAll"
             /\ UNCHANGED call
        ELSE /\ StoreFailed([run EXCEPT !.acc = res.acc], DBError("insert_staging", res.table, NULL))
             /\ staging' = res.staging
  /\ UNCHANGED <<files, perm, ingestion_state, hist>>

\* Step 5: flushAllStaging, then the test of step 6 and, with cursor
\* updates disabled, the return of the stats.
FlushStagingToProduction(failAt) ==
  /\ pc = "flushAll"
  /\ LET res == flushAllStaging(Db(perm, staging), failAt)
         r0 == LogOp([run EXCEPT !.flushInvoked = TRUE, !.stagingAtFlush = staging],
                     "flushAll", NULL)
     IN IF res.ok
        THEN LET r1 == [r0 EXCEPT !.flushResult = Some(res.counts)]
             IN /\ perm' = res.db.perm
                /\ staging' = res.db.staging
                /\ hist' = [hist EXCEPT !.flushedOK = @ \cup {run.uuid}]
                /\ IF ShouldUpdateCursor(run.config)
                   THEN /\ run' = r1
                        /\ pc' = "setCursor"
                        /\ UNCHANGED call
                   ELSE EndDone(r1)
        ELSE /\ perm' = res.db.perm
             /\ staging' = res.db.staging
             /\ StoreFailed(r0, DBError("transaction", NULL, res.cause))
             /\ UNCHANGED hist
  /\ UNCHANGED <<files, ingestion_state>>

\* Step 6 with the failure of setCursor caught and dropped.
SetCursorIgnoringFailure(dbOk) ==
  /\ pc = "setCursor"
  /\ LET timestamp == files[run.uuid].modifiedAt
         r0 == LogOp([run EXCEPT !.setCursorInvoked = TRUE,
                                 !.setCursorArgs = Some(<<timestamp, run.uuid, 1>>)],
                     "setCursor", NULL)
     IN IF dbOk
        THEN /\ ingestion_state' = Some(CursorJson(timestamp, run.uuid, 1))
             /\ EndDone(r0)
        ELSE /\ EndDone(Raise(r0, DBError("cursor_set", NULL, NULL)))
             /\ UNCHANGED ingestion_state
  /\ UNCHANGED <<files, perm, staging, hist>>

\* Step 6: setCursor(db, sessionFile.modifiedAt, sessionFile.uuid, 1), then
\* the return of the stats.
SetCursor(dbOk) ==
  /\ pc = "setCursor"
  /\ LET timestamp == files[run.uuid].modifiedAt
         r0 == LogOp([run EXCEPT !.setCursorInvoked = TRUE,
                                 !.setCursorArgs = Some(<<timestamp, run.uuid, 1>>)],
                     "setCursor", NULL)
     IN IF dbOk
        THEN /\ ingestion_state' = Some(CursorJson(timestamp, run.uuid, 1))
             /\ EndDone(r0)
        ELSE /\ StoreFailed(r0, DBError("cursor_set", NULL, NULL))
             /\ UNCHANGED ingestion_state
  /\ UNCHANGED <<files, perm, staging, hist>>

\* ------------------------------------------------------------------------
\* The staging store called directly
\* ------------------------------------------------------------------------
KeyNames == <<"k1", "k2", "k3", "k4">>
Keys == {KeyNames[i] : i \in 1..MaxKeys}

StoreRow(k) == Row(k, NULL, "row")

\* Batches of rows with pairwise distinct primary keys.
Batches ==
  {[i \in 1..Len(q) |-> StoreRow(q[i])] :
     q \in {p \in SeqsUpTo(Keys, MaxKeys) :
              Len(p) >= 1 /\ \A i, j \in 1..Len(p) : i # j => p[i] # p[j]}}

StoreEvent(op, ok, count, permAfter, scratchEmpty, fresh) ==
  [op |-> op, ok |-> ok, count |-> count, permAfter |-> permAfter,
   scratchEmpty |-> scratchEmpty, fresh |-> fresh]

\* A caller holding one batch for one destination; the permanent table of
\* the destination starts with any rows.
InitStore ==
  /\ files = [u \in {"s1"} |-> [modifiedAt |-> 1, lines |-> <<>>]]
  /\ \E i \in 1..NumTables, rows \in Batches, present \in SUBSET Keys :
       /\ call = [entry |-> "store", table |-> i, rows |-> rows]
       /\ perm = [EmptyPerm EXCEPT ![ProductionTables[i]] = {StoreRow(k) : k \in present}]
  /\ staging = EmptyStaging
  /\ ingestion_state = None
  /\ pc = "store"
  /\ run = NoRun
  /\ hist = [budget |-> MaxOps, flushedOK |-> {}, log |-> <<>>]

\* insertToStaging(db, table, rows) with the caller's batch.
StoreInsertToStaging(dbOk) ==
  /\ pc = "store"
  /\ hist.budget >= 1
  /\ LET t == StagingTables[call.table]
         p == ProductionTables[call.table]
         fresh == \A i \in 1..Len(call.rows) : \A x \in perm[p] : x.id # call.rows[i].id
     IN /\ staging' = IF dbOk THEN insertToStaging(staging, t, call.rows) ELSE staging
        /\ hist' = [hist EXCEPT !.budget = @ - 1,
                                !.log = Append(@, StoreEvent("stage", dbOk,
                                                 IF dbOk THEN Len(call.rows) ELSE 0,
                                                 perm[p], staging[t] = <<>>, fresh))]
  /\ UNCHANGED <<files, perm, ingestion_state, pc, call, run>>

\* flushSessions .. flushFileHistory on the caller's destination.
StoreFlush(dbOk) ==
  /\ pc = "store"
  /\ hist.budget >= 1
  /\ LET t == StagingTables[call.table]
         p == ProductionTables[call.table]
         res == flushStagingTable(call.table, Db(perm, staging), dbOk)
     IN /\ perm' = res.db.perm
        /\ staging' = res.db.staging
        /\ hist' = [hist EXCEPT !.budget = @ - 1,
                                !.log = Append(@, StoreEvent("flush", res.ok,
                                                 res.inserted_count, res.db.perm[p],
                                                 staging[t] = <<>>, FALSE))]
  /\ UNCHANGED <<files, ingestion_state, pc, call, run>>

\* ------------------------------------------------------------------------
\* The cursor called directly
\* ------------------------------------------------------------------------
CursorTimes == 0..MaxTime

CursorEvent(op, ok, cursor, candidate, result) ==
  [op |-> op, ok |-> ok, cursor |-> cursor, candidate |-> candidate, result |-> result]

\* No cursor row; the log keeps the last call and what it returned.
InitCursor ==
  /\ files = [u \in {"s1"} |-> [modifiedAt |-> 1, lines |-> <<>>]]
  /\ perm = EmptyPerm
  /\ staging = EmptyStaging
  /\ ingestion_state = None
  /\ pc = "cursor"
  /\ call = [entry |-> "cursor"]
  /\ run = NoRun
  /\ hist = [budget |-> 0, flushedOK |-> {}, log |-> <<>>]

\* setCursor(db, timestamp, sessionId, sessionsProcessed).
CursorSet(timestamp, sessionId, sessionsProcessed, dbOk) ==
  /\ pc = "cursor"
  /\ ingestion_state' =
       IF dbOk THEN Some(setCursorValue(timestamp, sessionId, sessionsProcessed))
       ELSE ingestion_state
  /\ hist' = [hist EXCEPT !.log = <<CursorEvent("setCursor", dbOk, None, timestamp, FALSE)>>]
  /\ UNCHANGED <<files, perm, staging, pc, call, run>>

\* resetCursor(db): DELETE of the cursor row.
CursorReset(dbOk) ==
  /\ pc = "cursor"
  /\ ingestion_state' = IF dbOk THEN None ELSE ingestion_state
  /\ hist' = [hist EXCEPT !.log = <<CursorEvent("resetCursor", dbOk, None, 0, FALSE)>>]
  /\ UNCHANGED <<files, perm, staging, pc, call, run>>

\* getCursor(db), then shouldProcessSession(cursor, sessionMtime).
CursorShouldProcess(sessionMtime, dbOk) ==
  /\ pc = "cursor"
  /\ LET cursor == getCursor(ingestion_state)
     IN hist' = [hist EXCEPT !.log =
                   IF dbOk
                   THEN <<CursorEvent("shouldProcess", TRUE, cursor, sessionMtime,
                                      shouldProcessSession(cursor, sessionMtime))>>
                   ELSE <<CursorEvent("getCursor", FALSE, None, sessionMtime, FALSE)>>]
  /\ UNCHANGED <<files, perm, staging, ingestion_state, pc, call, run>>

\* ------------------------------------------------------------------------
\* The batch accumulator called directly
\* ------------------------------------------------------------------------
\* One accumulator created with flushFn = insertToStaging on AccTable.  The
\* k-th item ever added is the number k.
AccTable == "messages_staging"
AccRef == run.acc[AccTable]
AccBatchSize == BatchSizeOf(run.config)

AccEvent(op, rows, ok, flushed) == [op |-> op, rows |-> rows, ok |-> ok, flushed |-> flushed]

NoAccCall == [entry |-> "none", queue |-> 0, batch |-> <<>>, results |-> 0]

\* reset that zeroes the counters and keeps the buffer.
ResetKeepingBuffer == [AccRef EXCEPT !.totalFlushed = 0, !.flushCount = 0]

\* reset: Ref.set to the initial state.
ResetState == NewAccumulator

\* createBatchAccumulator(tableName, flushFn, {batchSize}).
InitAccumulator ==
  /\ files = [u \in {"s1"} |-> [modifiedAt |-> 1, lines |-> <<>>]]
  /\ perm = EmptyPerm
  /\ staging = EmptyStaging
  /\ ingestion_state = None
  /\ pc = "acc_idle"
  /\ call = NoAccCall
  /\ \E b \in 1..MaxBatchSize : run = [NoRun EXCEPT !.config.batchSize = Some(b)]
  /\ hist = [budget |-> MaxOps, flushedOK |-> {}, log |-> <<>>, added |-> 0,
             held |-> {NewAccumulator}, prev |-> NewAccumulator, snapshot |-> None]

\* A write of the Ref, remembered in the history.
WriteRef(new, h) ==
  /\ run' = [run EXCEPT !.acc[AccTable] = new]
  /\ hist' = [h EXCEPT !.held = @ \cup {new}, !.prev = AccRef]

\* Where control goes when an add returns: back into addMany, or to the caller.
AfterAdd == IF call.entry = "addMany" THEN "acc_next" ELSE "acc_idle"

\* add(item): the Ref.update that appends.
AccAdd ==
  /\ pc = "acc_idle"
  /\ hist.budget >= 1
  /\ call' = [NoAccCall EXCEPT !.entry = "add"]
  /\ WriteRef(AppendItem(AccRef, hist.added + 1),
              [hist EXCEPT !.budget = @ - 1, !.added = @ + 1])
  /\ pc' = "acc_check"
  /\ UNCHANGED <<files, perm, staging, ingestion_state>>

\* addMany(items) is called with n items.
AccAddMany(n) ==
  /\ pc = "acc_idle"
  /\ hist.budget >= CallCost([i \in 1..n |-> i])
  /\ call' = [NoAccCall EXCEPT !.entry = "addMany", !.queue = n]
  /\ hist' = [hist EXCEPT !.budget = @ - CallCost([i \in 1..n |-> i])]
  /\ pc' = "acc_next"
  /\ UNCHANGED <<files, perm, staging, ingestion_state, run>>

\* addMany: the for loop, calling add on the next item or returning results.
AccAddManyNext ==
  /\ pc = "acc_next"
  /\ IF call.queue = 0
     THEN /\ hist' = [hist EXCEPT !.log = Append(@, AccEvent("addMany", <<>>, TRUE,
                                                             call.results > 0))]
          /\ call' = NoAccCall
          /\ pc' = "acc_idle"
          /\ UNCHANGED run
     ELSE /\ WriteRef(AppendItem(AccRef, hist.added + 1), [hist EXCEPT !.added = @ + 1])
          /\ call' = [call EXCEPT !.queue = @ - 1]
          /\ pc' = "acc_check"
  /\ UNCHANGED <<files, perm, staging, ingestion_state>>

\* add: Ref.get and the threshold test; below the threshold add returns
\* undefined.
AccCheck ==
  /\ pc = "acc_check"
  /\ IF ThresholdReached(AccRef, AccBatchSize)
     THEN /\ pc' = "acc_read"
          /\ UNCHANGED <<call, hist>>
     ELSE /\ hist' = [hist EXCEPT !.log = Append(@, AccEvent("add", <<>>, TRUE, FALSE))]
          /\ pc' = AfterAdd
          /\ call' = IF call.entry = "addMany" THEN call ELSE NoAccCall
  /\ UNCHANGED <<files, perm, staging, ingestion_state, run>>

\* flush() is called.
AccFlush ==
  /\ pc = "acc_idle"
  /\ hist.budget >= 1
  /\ call' = [NoAccCall EXCEPT !.entry = "flush"]
  /\ hist' = [hist EXCEPT !.budget = @ - 1]
  /\ pc' = "acc_read"
  /\ UNCHANGED <<files, perm, staging, ingestion_state, run>>

\* The test of doFlush that never takes the early return.
BufferNeverEmpty(s) == FALSE

\* doFlush: state.items.length === 0.
BufferEmpty(s) == Len(s.items) = 0

\* doFlush: Ref.get; an empty buffer returns a zero result without calling
\* flushFn.
AccDoFlushRead ==
  /\ pc = "acc_read"
  /\ IF BufferEmpty(AccRef)
     THEN /\ hist' = [hist EXCEPT !.log = Append(@, AccEvent(IF call.entry = "flush" THEN "flush" ELSE "add",
                                                             <<>>, TRUE, TRUE))]
          /\ pc' = AfterAdd
          /\ call' = IF call.entry = "addMany"
                     THEN [call EXCEPT !.results = @ + 1] ELSE NoAccCall
     ELSE /\ call' = [call EXCEPT !.batch = AccRef.items]
          /\ pc' = "acc_flushFn"
          /\ UNCHANGED hist
  /\ UNCHANGED <<files, perm, staging, ingestion_state, run>>

\* flushFn whose failure also empties the buffer.
AccFlushFnClearingOnFailure(dbOk) ==
  /\ pc = "acc_flushFn"
  /\ IF dbOk
     THEN /\ staging' = insertToStaging(staging, AccTable, call.batch)
          /\ hist' = [hist EXCEPT !.log = Append(@, AccEvent("flushFn", call.batch, TRUE, FALSE))]
          /\ pc' = "acc_update"
          /\ UNCHANGED <<call, run>>
     ELSE /\ WriteRef([AccRef EXCEPT !.items = <<>>],
                      [hist EXCEPT !.log =
                         @ \o <<AccEvent("flushFn", call.batch, FALSE, FALSE),
                                AccEvent(call.entry, <<>>, FALSE, FALSE)>>])
          /\ pc' = "acc_idle"
          /\ call' = NoAccCall
          /\ UNCHANGED staging
  /\ UNCHANGED <<files, perm, ingestion_state>>

\* doFlush: flushFn(state.items).  A failure fails the call in progress.
AccFlushFn(dbOk) ==
  /\ pc = "acc_flushFn"
  /\ IF dbOk
     THEN /\ staging' = insertToStaging(staging, AccTable, call.batch)
          /\ hist' = [hist EXCEPT !.log = Append(@, AccEvent("flushFn", call.batch, TRUE, FALSE))]
          /\ pc' = "acc_update"
          /\ UNCHANGED call
     ELSE /\ hist' = [hist EXCEPT !.log =
                        @ \o <<AccEvent("flushFn", call.batch, FALSE, FALSE),
                               AccEvent(call.entry, <<>>, FALSE, FALSE)>>]
          /\ pc' = "acc_idle"
          /\ call' = NoAccCall
          /\ UNCHANGED staging
  /\ UNCHANGED <<files, perm, ingestion_state, run>>

\* doFlush: the Ref.update after the flush, then the FlushResult is returned.
AccFlushUpdate ==
  /\ pc = "acc_update"
  /\ WriteRef(FlushUpdate(AccRef, Len(call.batch)),
              [hist EXCEPT !.log = Append(@, AccEvent(IF call.entry = "flush" THEN "flush" ELSE "add",
                                                      call.batch, TRUE, TRUE))])
  /\ pc' = AfterAdd
  /\ call' = IF call.entry = "addMany"
             THEN [call EXCEPT !.results = @ + 1, !.batch = <<>>] ELSE NoAccCall
  /\ UNCHANGED <<files, perm, staging, ingestion_state>>

\* reset().
AccReset ==
  /\ pc = "acc_idle"
  /\ hist.budget >= 1
  /\ WriteRef(ResetState,
              [hist EXCEPT !.budget = @ - 1,
                           !.log = Append(@, AccEvent("reset", AccRef.items, TRUE, FALSE))])
  /\ UNCHANGED <<files, perm, staging, ingestion_state, pc, call>>

\* getState() from another fiber, between any two steps of the calls above.
AccGetState ==
  /\ pc \in {"acc_idle", "acc_next", "acc_check", "acc_read", "acc_flushFn", "acc_update"}
  /\ hist' = [hist EXCEPT !.snapshot = Some(getState(AccRef, hist.prev))]
  /\ UNCHANGED <<files, perm, staging, ingestion_state, pc, call, run>>

\* ------------------------------------------------------------------------
\* The router called directly
\* ------------------------------------------------------------------------
\* routeEntry is exported and takes any DecodedEntry value: the eight kinds
\* of the schema, a kind outside it, or no type at all.
RouterKinds == EntryTypes \cup {"other", "tool-result", NULL}
RouterInputs ==
  [lineNum : 1..MaxLines, entry : [type : RouterKinds]]

RouterEvent(decoded, sessionId, result) ==
  [op |-> "routeEntry", decoded |-> decoded, sessionId |-> sessionId, result |-> result]

InitRouter ==
  /\ files = [u \in {"s1"} |-> [modifiedAt |-> 1, lines |-> <<>>]]
  /\ perm = EmptyPerm
  /\ staging = EmptyStaging
  /\ ingestion_state = None
  /\ pc = "router"
  /\ call = [entry |-> "router"]
  /\ run = NoRun
  /\ hist = [budget |-> MaxLines, flushedOK |-> {}, log |-> <<>>]

\* One call routeEntry(decoded, sessionId).
RouteEntry(decoded, sessionId) ==
  /\ pc = "router"
  /\ hist.budget >= 1
  /\ hist' = [hist EXCEPT !.budget = @ - 1,
                          !.log = Append(@, RouterEvent(decoded, sessionId,
                                                        routeEntry(decoded, sessionId)))]
  /\ UNCHANGED <<files, perm, staging, ingestion_state, pc, call, run>>

\* ------------------------------------------------------------------------
\* Two ingestSession runs on the same store
\* ------------------------------------------------------------------------
\* Two fibers, each calling ingestSession once on its own artifact, on one
\* database.  The fiber that runs holds pc, call and run; the other one is
\* parked in hist.parked together with the scratch tables as it last saw
\* them.  A fiber can be descheduled at every yield*, that is between any
\* two steps of ingestSession.
NoCall ==
  [entry |-> "none", config |-> NoRun.config, queue |-> <<>>, results |-> <<>>,
   status |-> "none"]

Fiber(pc_, call_, run_, staging_) ==
  [pc |-> pc_, call |-> call_, run |-> run_, staging |-> staging_]

\* Rows of the artifact of run r.
OwnRow(r, row) == row.id = r.uuid \/ row.session_id = r.uuid

\* History: a row that run r had staged is gone from the scratch tables
\* when r is scheduled again, while r is still running.
Robbed(r, seen, now) ==
  /\ r.status = "running"
  /\ \E t \in StagingSet :
       \E i \in 1..Len(seen[t]) :
         /\ OwnRow(r, seen[t][i])
         /\ \A j \in 1..Len(now[t]) : now[t][j] # seen[t][i]

ConcurrentConfigs ==
  {c \in Configs : c.updateCursor = None /\ c.resilient = None}

InitConcurrent ==
  /\ files = [u \in {"s1", "s2"} |->
                [modifiedAt |-> IF u = "s1" THEN 1 ELSE 2, lines |-> <<"summary">>]]
  /\ perm = EmptyPerm
  /\ staging = EmptyStaging
  /\ ingestion_state = None
  /\ pc = "idle"
  /\ call = NoCall
  /\ run = NoRun
  /\ hist = [budget |-> 2, flushedOK |-> {}, log |-> <<>>,
             parked |-> Fiber("idle", NoCall, NoRun, EmptyStaging)]

\* The running fiber calls ingestSession on the artifact the other fiber
\* does not ingest.
ConcurrentCall(u, config) ==
  /\ call.status = "none"
  /\ hist.parked.run.uuid # u
  /\ CallIngestSession(u, config)

\* The scheduler parks the running fiber and resumes the other one.
Switch ==
  /\ pc' = hist.parked.pc
  /\ call' = hist.parked.call
  /\ run' = [hist.parked.run EXCEPT
               !.robbed = @ \/ Robbed(hist.parked.run, hist.parked.staging, staging)]
  /\ hist' = [hist EXCEPT !.parked = Fiber(pc, call, run, staging)]
  /\ UNCHANGED <<files, perm, staging, ingestion_state>>

\* ------------------------------------------------------------------------
\* Scanner
\* ------------------------------------------------------------------------
\* Names the glob can return: the session files on disk and one .jsonl file
\* whose name is not a UUID.
NotUuidName == "notes"
ScanNames == Uuids \cup {NotUuidName}

\* extractUuid: the name when it has the UUID format, else null.
extractUuid(filename) == IF filename \in Uuids THEN filename ELSE NULL

\* The project directory of each session file.
ProjectOf(uuid) == IF uuid = "s1" THEN "p1" ELSE "p2"

ScanError(type, path) == [type |-> type, path |-> path]

\* What the file system answers during one discoverSession: whether stat,
\* the subagents listing, the tool-results listing and the correlation of
\* side files succeed.
ScanEnvs ==
  {e \in [stat : BOOLEAN, subagents : BOOLEAN, toolResults : BOOLEAN, correlate : BOOLEAN] :
     Cardinality({f \in {"subagents", "toolResults", "correlate"} : ~e[f]}) \in {0, 1, 3}}

\* discoverSession with a failure of the side discoveries turned into the
\* failure of the session.
discoverSessionStrict(jsonlPath, env) ==
  IF extractUuid(jsonlPath) = NULL
  THEN Left(ScanError("invalid_format", jsonlPath))
  ELSE IF ~(env.stat /\ env.subagents /\ env.toolResults /\ env.correlate)
  THEN Left(ScanError("io_error", jsonlPath))
  ELSE Right([uuid |-> jsonlPath, mainFile |-> jsonlPath,
              projectPathDecoded |-> ProjectOf(jsonlPath),
              modifiedAt |-> files[jsonlPath].modifiedAt,
              subagents |-> <<"agent">>, toolResults |-> <<"toolu">>,
              todoFile |-> "todo", debugFile |-> "debug"])

\* discoverSession: invalid name and stat failure fail; the three side
\* discoveries degrade to empty / null.
discoverSession(jsonlPath, env) ==
  IF extractUuid(jsonlPath) = NULL
  THEN Left(ScanError("invalid_format", jsonlPath))
  ELSE IF ~env.stat
  THEN Left(ScanError("io_error", jsonlPath))
  ELSE Right([uuid |-> jsonlPath, mainFile |-> jsonlPath,
              projectPathDecoded |-> ProjectOf(jsonlPath),
              modifiedAt |-> files[jsonlPath].modifiedAt,
              subagents |-> IF env.subagents THEN <<"agent">> ELSE <<>>,
              toolResults |-> IF env.toolResults THEN <<"toolu">> ELSE <<>>,
              todoFile |-> IF env.correlate THEN "todo" ELSE NULL,
              debugFile |-> IF env.correlate THEN "debug" ELSE NULL])

\* Array.prototype.slice(0, end).
Slice(q, end) ==
  LET n == IF end < 0 THEN (IF Len(q) + end < 0 THEN 0 ELSE Len(q) + end)
           ELSE (IF end > Len(q) THEN Len(q) ELSE end)
  IN SubSeq(q, 1, n)

\* filterBySince: modifiedAt.getTime() > sinceTime.
filterBySince(sessions, since) ==
  SelectSeq(sessions, LAMBDA x : x.modifiedAt > since)

\* filterByProject, on patterns that are exact project paths.
filterByProject(sessions, pattern) ==
  SelectSeq(sessions, LAMBDA x : x.projectPathDecoded = pattern)

\* Array.prototype.sort with (a, b) => a.modifiedAt - b.modifiedAt (stable).
RECURSIVE InsertOldestFirst(_, _)
InsertOldestFirst(sorted, x) ==
  IF sorted = <<>> THEN <<x>>
  ELSE IF Head(sorted).modifiedAt - x.modifiedAt <= 0
       THEN <<Head(sorted)>> \o InsertOldestFirst(Tail(sorted), x)
       ELSE <<x>> \o sorted

RECURSIVE sortOldestFirst(_)
sortOldestFirst(sessions) ==
  IF sessions = <<>> THEN <<>>
  ELSE InsertOldestFirst(sortOldestFirst(SubSeq(sessions, 1, Len(sessions) - 1)),
                         sessions[Len(sessions)])

ScanOptions ==
  [since : {None} \cup {Some(t) : t \in 0..MaxTime},
   limit : {None} \cup {Some(n) : n \in 0..MaxList},
   projectFilter : {None, Some("p1")}]

\* applyFilters: `input` is the caller's array after the call, `result` the
\* array returned.
applyFilters(sessions, options) ==
  LET r0 == sessions
      r1 == IF options.projectFilter # None
            THEN filterByProject(r0, options.projectFilter.value) ELSE r0
      r2 == IF options.since # None THEN filterBySince(r1, options.since.value) ELSE r1
      r3 == sortOldestFirst(r2)
      r4 == IF options.limit # None /\ options.limit.value # 0 /\ options.limit.value > 0
            THEN Slice(r3, options.limit.value) ELSE r3
  IN [input |-> sessions, result |-> r4]

\* The since test of the scan loop skipping only strictly older sessions.
SkippedBySinceExclusive(session, options) ==
  options.since # None /\ session.modifiedAt < options.since.value

\* scanDirectory, the since test of the loop:
\* options?.since && result.right.modifiedAt <= options.since
SkippedBySince(session, options) ==
  options.since # None /\ session.modifiedAt <= options.since.value

\* scanDirectory, after the loop: sort, then
\* options?.limit ? sessions.slice(0, options.limit) : sessions
LimitedSessions(sessions, options) ==
  LET sorted == sortOldestFirst(sessions)
  IN IF options.limit # None /\ options.limit.value # 0
     THEN Slice(sorted, options.limit.value) ELSE sorted

NoScan ==
  [entry |-> "none", options |-> [since |-> None, limit |-> None, projectFilter |-> None],
   queue |-> <<>>, totalDiscovered |-> 0, sessions |-> <<>>, errors |-> <<>>,
   discovered |-> <<>>, status |-> "none", result |-> None]

\* Listings without repeated names.
Listings ==
  {q \in SeqsUpTo(ScanNames, Cardinality(ScanNames)) :
     \A i, j \in 1..Len(q) : i # j => q[i] # q[j]}

\* A directory whose glob gives hist.listing, and session files with any
\* modification times.
InitScanner ==
  /\ files \in [{"s1", "s2"} -> [modifiedAt : 1..MaxTime, lines : {<<>>}]]
  /\ perm = EmptyPerm
  /\ staging = EmptyStaging
  /\ ingestion_state = None
  /\ pc = "scan_idle"
  /\ call = NoScan
  /\ run = NoRun
  /\ \E listing \in Listings :
       hist = [budget |-> 1, flushedOK |-> {}, log |-> <<>>, listing |-> listing]

\* scanDirectory(options): the glob and the filter on UUID file names.
\* call.discovered is history: every session discovered successfully.
ScanDirectory(options, globOk) ==
  /\ pc = "scan_idle"
  /\ hist.budget >= 1
  /\ hist' = [hist EXCEPT !.budget = @ - 1]
  /\ IF ~globOk
     THEN /\ call' = [NoScan EXCEPT !.entry = "scanDirectory", !.options = options,
                                    !.status = "failed"]
          /\ pc' = "scan_idle"
     ELSE LET sessionFiles == SelectSeq(hist.listing, LAMBDA f : extractUuid(f) # NULL)
          IN /\ call' = [NoScan EXCEPT !.entry = "scanDirectory", !.options = options,
                                       !.queue = sessionFiles,
                                       !.totalDiscovered = Len(sessionFiles),
                                       !.status = "running"]
             /\ pc' = "scan_loop"
  /\ UNCHANGED <<files, perm, staging, ingestion_state, run>>

\* The for loop: Effect.either(discoverSession(file)) for the next file.
ScanDiscover(env) ==
  /\ pc = "scan_loop"
  /\ call.queue # <<>>
  /\ LET result == discoverSession(Head(call.queue), env)
         c0 == [call EXCEPT !.queue = Tail(@)]
     IN call' = IF result.tag = "Right"
                THEN LET c1 == [c0 EXCEPT !.discovered = Append(@, result.right)]
                     IN IF SkippedBySince(result.right, call.options) THEN c1
                        ELSE [c1 EXCEPT !.sessions = Append(@, result.right)]
                ELSE [c0 EXCEPT !.errors = Append(@, result.left)]
  /\ UNCHANGED <<files, perm, staging, ingestion_state, pc, run, hist>>

\* After the loop: sort, limit, return the ScanResult.
ScanReturn ==
  /\ pc = "scan_loop"
  /\ call.queue = <<>>
  /\ call' = [call EXCEPT
                !.status = "done",
                !.result = Some([sessions |-> LimitedSessions(call.sessions, call.options),
                                 errors |-> call.errors,
                                 totalDiscovered |-> call.totalDiscovered,
                                 skippedByFilter |-> call.totalDiscovered - Len(call.sessions)])]
  /\ pc' = "scan_idle"
  /\ UNCHANGED <<files, perm, staging, ingestion_state, run, hist>>

\* discoverSession(jsonlPath) called directly on any path.
DiscoverSessionDirect(jsonlPath, env) ==
  /\ pc = "scan_idle"
  /\ hist.budget >= 1
  /\ hist' = [hist EXCEPT !.budget = @ - 1,
                          !.log = Append(@, [op |-> "discoverSession", path |-> jsonlPath,
                                             env |-> env,
                                             result |-> discoverSession(jsonlPath, env)])]
  /\ UNCHANGED <<files, perm, staging, ingestion_state, pc, call, run>>

\* The in-memory lists handed to applyFilters: sessions discovered with all
\* their side files, in any order.
SessionLists ==
  {[i \in 1..Len(q) |->
      discoverSession(q[i], [stat |-> TRUE, subagents |-> TRUE, toolResults |-> TRUE,
                             correlate |-> TRUE]).right] :
     q \in {l \in Listings : \A i \in 1..Len(l) : extractUuid(l[i]) # NULL}}

\* applyFilters(sessions, options) called directly.
ApplyFilters(sessions, options) ==
  /\ pc = "scan_idle"
  /\ hist.budget >= 1
  /\ LET r == applyFilters(sessions, options)
     IN hist' = [hist EXCEPT !.budget = @ - 1,
                             !.log = Append(@, [op |-> "applyFilters", options |-> options,
                                                before |-> sessions, after |-> r.input,
                                                result |-> r.result])]
  /\ UNCHANGED <<files, perm, staging, ingestion_state, pc, call, run>>

\* ------------------------------------------------------------------------
\* Specifications
\* ------------------------------------------------------------------------
\* The steps of one ingestSession run.
SessionSteps ==
  \/ \E dbOk \in BOOLEAN : TruncateAllStaging(dbOk)
  \/ \E failedAt \in {"open", "read"} : StreamIOError(failedAt)
  \/ \E dbOk \in BOOLEAN : StreamLine(dbOk)
  \/ StreamEnd
  \/ \E failAt \in 0..NumTables : FlushRemainingBatches(failAt)
  \/ \E failAt \in 0..NumTables : FlushStagingToProduction(failAt)
  \/ \E dbOk \in BOOLEAN : SetCursor(dbOk)

\* ingestSession called directly, run after run.
NextSession ==
  \/ \E u \in Uuids, config \in Configs : CallIngestSession(u, config)
  \/ SessionSteps

\* Every entry point.
Next ==
  \/ \E u \in Uuids, config \in ListConfigs : CallIngestSession(u, config)
  \/ \E list \in SeqsUpTo(Uuids, MaxList), config \in ListConfigs :
       CallIngestSessions(list, config)
  \/ \E list \in Perms(Uuids), config \in ListConfigs, cursorOk \in BOOLEAN :
       CallIngestIncremental(list, config, cursorOk)
  \/ IngestSessionsLoop
  \/ SessionSteps

\* Only incremental runs over the whole artifact set.
NextIncremental ==
  \/ \E list \in Perms(Uuids), config \in ListConfigs, cursorOk \in BOOLEAN :
       CallIngestIncremental(list, config, cursorOk)
  \/ IngestSessionsLoop
  \/ SessionSteps

\* Direct calls of the staging store.
NextStore ==
  \/ \E dbOk \in BOOLEAN : StoreInsertToStaging(dbOk)
  \/ \E dbOk \in BOOLEAN : StoreFlush(dbOk)

\* Direct calls of the cursor functions.
NextCursor ==
  \/ \E timestamp \in CursorTimes, sessionId \in {None, Some("s1"), Some("s2")},
        sessionsProcessed \in {None, Some(2)}, dbOk \in BOOLEAN :
       CursorSet(timestamp, sessionId, sessionsProcessed, dbOk)
  \/ \E dbOk \in BOOLEAN : CursorReset(dbOk)
  \/ \E sessionMtime \in CursorTimes, dbOk \in BOOLEAN : CursorShouldProcess(sessionMtime, dbOk)

\* scanDirectory, discoverSession and applyFilters.
NextScanner ==
  \/ \E options \in ScanOptions, globOk \in BOOLEAN : ScanDirectory(options, globOk)
  \/ \E env \in ScanEnvs : ScanDiscover(env)
  \/ ScanReturn
  \/ \E jsonlPath \in ScanNames, env \in ScanEnvs : DiscoverSessionDirect(jsonlPath, env)
  \/ \E sessions \in SessionLists, options \in ScanOptions : ApplyFilters(sessions, options)

\* Two fibers running ingestSession on one database.
NextConcurrent ==
  \/ \E u \in Uuids, config \in ConcurrentConfigs : ConcurrentCall(u, config)
  \/ Switch
  \/ SessionSteps

\* Direct calls of the router.
NextRouter ==
  \E decoded \in RouterInputs, sessionId \in {"s1", "s2"} : RouteEntry(decoded, sessionId)

\* Direct calls of one batch accumulator.
NextAccumulator ==
  \/ AccAdd
  \/ \E n \in 0..MaxList : AccAddMany(n)
  \/ AccAddManyNext
  \/ AccCheck
  \/ AccFlush
  \/ AccDoFlushRead
  \/ \E dbOk \in BOOLEAN : AccFlushFn(dbOk)
  \/ AccFlushUpdate
  \/ AccReset
  \/ AccGetState

\* One artifact, ingestSession only.
Spec == Init /\ [][NextSession]_vars

\* One artifact whose lines go to a scratch table the truncate function
\* names (summary) or to one it does not name (system); run after run.
InitCleanSlate ==
  /\ files \in [{"s1"} -> [modifiedAt : {1}, lines : SeqsUpTo({"summary", "system"}, MaxLines)]]
  /\ InitRest(MaxRuns)

SpecCleanSlate == InitCleanSlate /\ [][NextSession]_vars

\* One artifact of one entry of any of the eight kinds, or of an assistant
\* entry followed by one; an assistant entry stands for any assistant
\* record, with tool_use blocks or without.
InitKinds ==
  /\ files \in [{"s1"} -> [modifiedAt : {1},
                           lines : {<<k>> : k \in EntryTypes}
                                     \cup {<<"assistant", k>> : k \in EntryTypes}]]
  /\ InitRest(MaxRuns)

SpecKinds == InitKinds /\ [][NextSession]_vars

\* Two artifacts, every entry point.
SpecArtifacts == InitArtifacts /\ [][Next]_vars

\* Two artifacts, ingestIncremental only.
SpecIncremental == InitIncremental /\ [][NextIncremental]_vars

\* One destination, one batch, stage and flush in any order.
SpecStore == InitStore /\ [][NextStore]_vars

\* The cursor row under set, reset and the incremental gate.
SpecCursor == InitCursor /\ [][NextCursor]_vars

\* Discovery of session files.
SpecScanner == InitScanner /\ [][NextScanner]_vars

\* Two interleaved runs of ingestSession.
SpecConcurrent == InitConcurrent /\ [][NextConcurrent]_vars

\* routeEntry on every kind of input.
SpecRouter == InitRouter /\ [][NextRouter]_vars

\* One accumulator under add, addMany, flush, reset and getState.
SpecAccumulator == InitAccumulator /\ [][NextAccumulator]_vars

TypeOK ==
  /\ pc \in {"store", "cursor", "router", "scan_idle", "scan_loop", "acc_idle", "acc_next", "acc_check", "acc_read",
            "acc_flushFn", "acc_update", "idle", "loop", "truncate", "stream", "flushAcc", "flushAll", "setCursor"}
  /\ run.status \in {"none", "running", "done", "failed"}
  /\ hist.budget \in 0..(MaxRuns + MaxOps)

\* ------------------------------------------------------------------------
\* Properties
\* ------------------------------------------------------------------------
CursorTimestamp(state) == getCursor(state).value.timestamp

RunEnded == run.status \in {"done", "failed"}

\* Lines of the current artifact as the decoder sees them.
NonBlankLines == FilterBlank(files[run.uuid].lines)
IsMalformed(line) == line \notin EntryTypes
MalformedPositions == {i \in 1..Len(NonBlankLines) : IsMalformed(NonBlankLines[i])}

StagedRows == {t \in StagingSet : staging[t] # <<>>}

\* The position of setCursor within a run.
C1_CursorAfterFlushState ==
  /\ run.setCursorInvoked =>
       /\ run.flushResult # None
       /\ run.config.updateCursor # Some(FALSE)
       /\ run.setCursorArgs = Some(<<files[run.uuid].modifiedAt, run.uuid, 1>>)
  /\ (run.flushResult # None /\ run.config.updateCursor # Some(FALSE) /\ pc # "setCursor")
       => run.setCursorInvoked
  /\ pc = "setCursor" => (run.flushResult # None /\ ~run.setCursorInvoked)

\* C1: setCursor is invoked, with the artifact's modification time and
\* identifier, exactly when flushAllStaging of the same run has returned
\* success and config.updateCursor is not false; the stored cursor changes
\* only in that step, never before or without the successful flush.
C1_CursorAfterFlush ==
  /\ []C1_CursorAfterFlushState
  /\ [][ingestion_state' # ingestion_state =>
          /\ run.flushResult # None
          /\ run.config.updateCursor # Some(FALSE)
          /\ run'.setCursorInvoked
          /\ ingestion_state' = Some(CursorJson(files[run.uuid].modifiedAt, run.uuid, 1))]_vars

C1_Witness ==
  /\ run.status = "done"
  /\ run.setCursorInvoked
  /\ SumSeq(run.flushResult.value) >= 1
  /\ ingestion_state = Some(CursorJson(files[run.uuid].modifiedAt, run.uuid, 1))

\* C2: with no call in progress, every artifact whose modification time is
\* at or before the stored cursor timestamp has been flushed to the permanent
\* store by a successful flushAllStaging.
C2_CursorNeverPastUnflushed ==
  (pc = "idle" /\ ingestion_state # None) =>
    \A u \in Uuids :
      files[u].modifiedAt <= CursorTimestamp(ingestion_state) => u \in hist.flushedOK

\* The run ended in step 1, 3 or 4.
AbortedMidStream ==
  /\ run.error # None
  /\ \/ run.error.value.tag \in {"IOError", "ParseError"}
     \/ /\ run.error.value.tag = "DBError"
        /\ run.error.value.operation \in {"truncate", "insert_staging"}

\* C3: a run that aborted mid-stream (IOError, ParseError, or a DBError of
\* truncate or of a stage insert) leaves the stored cursor as it was before
\* the run and never invokes flushAllStaging.
C3_AbortLeavesCursor ==
  AbortedMidStream => (ingestion_state = run.cursorBefore /\ ~run.flushInvoked)

C3_Witness ==
  /\ run.status = "failed"
  /\ run.error.value.tag = "IOError"
  /\ run.pos >= 1
  /\ StagedRows # {}
  /\ run.cursorBefore # None
  /\ ingestion_state = run.cursorBefore

\* C4: when a flush call inside flushAllStaging fails, the permanent store
\* shows no row of the flush and every scratch table holds the rows it held
\* before the call.
C4_FlushAllOrNothing ==
  (run.error # None /\ run.error.value.tag = "DBError"
     /\ run.error.value.operation = "transaction")
  => (perm = run.permBefore /\ staging = run.stagingAtFlush)

\* The second flush call raised after the first had upserted its rows.
C4_Witness ==
  /\ run.status = "failed"
  /\ run.error.value.tag = "DBError"
  /\ run.error.value.operation = "transaction"
  /\ run.error.value.cause = "messages_staging"
  /\ staging["sessions_staging"] # <<>>
  /\ perm["sessions"] = {}

\* Events i..i+3 of the log are stage, flush, stage, flush, all successful,
\* starting from an empty scratch table and keys absent from the table.
StageFlushTwiceAt(i) ==
  /\ i + 3 <= Len(hist.log)
  /\ \A j \in i..(i + 3) : hist.log[j].ok
  /\ hist.log[i].op = "stage" /\ hist.log[i].scratchEmpty /\ hist.log[i].fresh
  /\ hist.log[i + 1].op = "flush"
  /\ hist.log[i + 2].op = "stage"
  /\ hist.log[i + 3].op = "flush"

\* C5: stage a batch of N rows with distinct primary keys, none of them in
\* the permanent table, into an empty scratch table and flush; stage the
\* same batch again and flush again: the first flush returns N, the second
\* returns 0, and the permanent table after the second flush equals the
\* table after the first.
C5_FlushIdempotent ==
  \A i \in 1..Len(hist.log) :
    StageFlushTwiceAt(i) =>
      /\ hist.log[i + 1].count = Len(call.rows)
      /\ hist.log[i + 3].count = 0
      /\ hist.log[i + 3].permAfter = hist.log[i + 1].permAfter

C5_Witness ==
  /\ pc = "store"
  /\ StageFlushTwiceAt(1)
  /\ Len(call.rows) >= 2
  /\ hist.log[2].count = Len(call.rows)
  /\ hist.log[4].count = 0
  /\ Cardinality(perm[ProductionTables[call.table]]) = Len(call.rows)

\* The run completed, and so did the previous run, on the same artifact.
SecondRunAfterSuccess ==
  /\ run.status = "done"
  /\ run.prev # None
  /\ run.prev.value.uuid = run.uuid
  /\ run.prev.value.status = "done"

\* C6: a run on an artifact whose previous run succeeded inserts nothing in
\* the permanent store, leaves it unchanged, and stages as many rows as the
\* previous run did.
C6_RerunInsertsNothing ==
  SecondRunAfterSuccess =>
    /\ run.stats.value.totalProductionInserts = 0
    /\ perm = run.permBefore
    /\ run.stats.value.totalStagingInserts = run.prev.value.totalStagingInserts

C6_Witness ==
  /\ SecondRunAfterSuccess
  /\ run.stats.value.totalStagingInserts >= 1
  /\ perm["sessions"] # {}

StrictRun == run.status # "none" /\ run.config.resilient = Some(FALSE)

\* C7: in strict mode the run never gets past the first malformed line: it
\* ends with the ParseError of that line, flushAllStaging is not reached and
\* the permanent store equals its contents before the run.
C7_StrictAbortsWithoutCommit ==
  (StrictRun /\ MalformedPositions # {}) =>
    LET first == CHOOSE i \in MalformedPositions : \A j \in MalformedPositions : i <= j
    IN /\ run.status # "done"
       /\ run.pos <= first
       /\ perm = run.permBefore
       /\ ~run.flushInvoked
       /\ run.pos = first =>
            (run.status = "failed" /\ run.error.value = ParseError(first, NonBlankLines[first]))

\* An accumulator had flushed a full batch to its scratch table before the
\* malformed line.
C7_Witness ==
  /\ StrictRun
  /\ run.status = "failed"
  /\ run.error.value.tag = "ParseError"
  /\ run.error.value.line >= 2
  /\ StagedRows # {}
  /\ perm = run.permBefore

ResilientRun == run.status # "none" /\ run.config.resilient # Some(FALSE)

\* C8: a resilient run never fails with a ParseError, and the stats of a
\* completed resilient run count every non-blank line as processed and
\* every malformed line as a parse error.
C8_ResilientCounts ==
  ResilientRun =>
    /\ run.error # None => run.error.value.tag # "ParseError"
    /\ run.status = "done" =>
         /\ run.stats.value.parseErrors = Cardinality(MalformedPositions)
         /\ run.stats.value.totalEntriesProcessed = Len(NonBlankLines)

C8_Witness ==
  /\ ResilientRun
  /\ run.status = "done"
  /\ run.stats.value.parseErrors >= 1
  /\ run.stats.value.totalEntriesProcessed > run.stats.value.parseErrors

\* C9 as stated: every run that ended, completed or aborted, has yielded
\* IngestionStats.
C9_StatsWhateverTheOutcome == RunEnded => run.stats # None

\* C9 amended: a completed run yields IngestionStats and no error; an aborted
\* run yields no IngestionStats, only a tagged error naming what failed.
C9_StatsOnlyOnSuccess ==
  /\ run.status = "done" => (run.stats # None /\ run.error = None)
  /\ run.status = "failed" =>
       /\ run.stats = None
       /\ run.error # None
       /\ run.error.value.tag \in {"IOError", "ParseError", "DBError"}
  /\ run.status = "running" => run.stats = None

\* The flush-to-permanent step aborted.
C9_Witness ==
  /\ run.status = "failed"
  /\ run.flushInvoked
  /\ run.error.value.tag = "DBError"
  /\ run.error.value.operation = "transaction"
  /\ run.stats = None

\* C10 as stated: whenever the stored cursor changes, its timestamp does not
\* decrease.
C10_CursorNeverMovesBack ==
  [][(ingestion_state # None /\ ingestion_state' # ingestion_state) =>
       CursorTimestamp(ingestion_state') >= CursorTimestamp(ingestion_state)]_vars

\* C10 amended: whenever a run started by ingestIncremental changes the
\* stored cursor, its timestamp does not decrease.
C10_IncrementalCursorNeverMovesBack ==
  [][(ingestion_state # None /\ ingestion_state' # ingestion_state
        /\ call.entry = "ingestIncremental") =>
       CursorTimestamp(ingestion_state') >= CursorTimestamp(ingestion_state)]_vars

C10_Witness ==
  /\ call.entry = "ingestIncremental"
  /\ run.status = "done"
  /\ run.setCursorInvoked
  /\ run.cursorBefore # None
  /\ CursorTimestamp(ingestion_state) > CursorTimestamp(run.cursorBefore)

\* C11: shouldProcessSession(cursor, t) is true exactly when the cursor is
\* absent or t is strictly later than the cursor's timestamp; for every t at
\* or before the cursor's timestamp it is false.
C11_ShouldProcessStrictlyAfter ==
  \A i \in 1..Len(hist.log) :
    LET e == hist.log[i]
    IN (e.op = "shouldProcess") =>
         /\ e.result <=> (e.cursor = None \/ e.candidate > e.cursor.value.timestamp)
         /\ (e.cursor # None /\ e.candidate <= e.cursor.value.timestamp) => ~e.result

\* A candidate at exactly the cursor's timestamp was refused.
C11_Witness ==
  /\ pc = "cursor"
  /\ hist.log # <<>>
  /\ hist.log[1].op = "shouldProcess"
  /\ hist.log[1].cursor # None
  /\ hist.log[1].candidate = hist.log[1].cursor.value.timestamp
  /\ ~hist.log[1].result

\* ------------------------------------------------------------------------
\* The batch accumulator
\* ------------------------------------------------------------------------
IsAddEvent(e) == e.op = "add"
IsFlushFnEvent(e) == e.op = "flushFn"
AddEvents == SelectSeq(hist.log, IsAddEvent)
FlushFnEvents == SelectSeq(hist.log, IsFlushFnEvent)

\* Nothing but direct add calls so far, every flushFn call succeeded, and no
\* call is in progress.
OnlyAddsSoFar ==
  /\ pc = "acc_idle"
  /\ \A i \in 1..Len(hist.log) : hist.log[i].op \in {"add", "flushFn"} /\ hist.log[i].ok

\* C12: starting from an empty accumulator whose flushFn succeeds, after
\* exactly batchSize adds flushFn has been invoked exactly once, with exactly
\* batchSize rows, by the batchSize-th add (the only add that returned a flush
\* result), and the buffer is empty.  After batchSize + 1 adds with
\* batchSize >= 2 there has still been exactly one flushFn call of batchSize
\* rows and one row is buffered; with batchSize = 1 the second add has reached
\* the threshold again, so flushFn has been called twice with one row each
\* and the buffer is empty.
C12_FlushAtThreshold ==
  OnlyAddsSoFar =>
    /\ (Len(AddEvents) = AccBatchSize) =>
         /\ Len(FlushFnEvents) = 1
         /\ Len(FlushFnEvents[1].rows) = AccBatchSize
         /\ AccRef.items = <<>>
         /\ \A i \in 1..AccBatchSize : AddEvents[i].flushed <=> (i = AccBatchSize)
    /\ (Len(AddEvents) = AccBatchSize + 1 /\ AccBatchSize >= 2) =>
         /\ Len(FlushFnEvents) = 1
         /\ Len(FlushFnEvents[1].rows) = AccBatchSize
         /\ Len(AccRef.items) = 1
    /\ (Len(AddEvents) = AccBatchSize + 1 /\ AccBatchSize = 1) =>
         /\ Len(FlushFnEvents) = 2
         /\ \A i \in 1..2 : Len(FlushFnEvents[i].rows) = 1
         /\ AccRef.items = <<>>

\* The statement for every batchSize: batchSize + 1 adds give one flush of
\* batchSize rows and one buffered row.
C12_OneFlushOneBufferedAnyBatchSize ==
  (OnlyAddsSoFar /\ Len(AddEvents) = AccBatchSize + 1) =>
    /\ Len(FlushFnEvents) = 1
    /\ Len(FlushFnEvents[1].rows) = AccBatchSize
    /\ Len(AccRef.items) = 1

\* Two adds with batchSize = 1: two flushFn calls of one row, nothing buffered.
C12_Witness ==
  /\ OnlyAddsSoFar
  /\ AccBatchSize = 1
  /\ Len(AddEvents) = AccBatchSize + 1
  /\ Len(FlushFnEvents) = 2
  /\ FlushFnEvents[2].rows = <<2>>
  /\ AccRef.items = <<>>

\* C13: in every reachable state the buffer holds at most batchSize items.
C13_BufferBounded == Len(AccRef.items) <= AccBatchSize

RECURSIVE ConcatRows(_)
ConcatRows(events) ==
  IF events = <<>> THEN <<>> ELSE Head(events).rows \o ConcatRows(Tail(events))

\* Sequential use with a flushFn that never failed and no reset.
SequentialAllSucceeded ==
  /\ pc = "acc_idle"
  /\ \A i \in 1..Len(hist.log) : hist.log[i].ok /\ hist.log[i].op # "reset"

\* C14: under sequential use with a succeeding flushFn, the batches passed to
\* flushFn, concatenated in call order and followed by the buffer, are exactly
\* the items added, in the order they were added.
C14_FifoNoLossNoDuplication ==
  SequentialAllSucceeded =>
    ConcatRows(FlushFnEvents) \o AccRef.items = [i \in 1..hist.added |-> i]

C14_Witness ==
  /\ SequentialAllSucceeded
  /\ AccBatchSize = 2
  /\ Len(FlushFnEvents) = 1
  /\ FlushFnEvents[1].rows = <<1, 2>>
  /\ AccRef.items = <<3>>
  /\ hist.added = 3

\* C15: whatever the interleaving with add and flush, the value getState
\* returns is a value the accumulator state held at one moment: its items and
\* its two counters belong to the same state.
C15_GetStateIsSnapshot ==
  hist.snapshot # None => hist.snapshot.value \in hist.held

C15_Witness ==
  /\ hist.snapshot # None
  /\ pc = "acc_update"
  /\ hist.snapshot.value = AccRef
  /\ Len(AccRef.items) = AccBatchSize
  /\ AccRef.flushCount = 1
  /\ AccRef.totalFlushed = AccBatchSize

\* The items pending at a reset are in no later flushFn batch and not in the
\* buffer.
PendingAtResetNeverFlushed ==
  \A i \in 1..Len(hist.log) :
    hist.log[i].op = "reset" =>
      /\ \A j \in (i + 1)..Len(hist.log) :
           hist.log[j].op = "flushFn" =>
             \A a \in 1..Len(hist.log[i].rows), b \in 1..Len(hist.log[j].rows) :
               hist.log[i].rows[a] # hist.log[j].rows[b]
      /\ \A a \in 1..Len(hist.log[i].rows) :
           \A b \in 1..Len(AccRef.items) : hist.log[i].rows[a] # AccRef.items[b]

\* The step in which a reset call returns.
ResetReturned ==
  /\ Len(hist'.log) = Len(hist.log) + 1
  /\ hist'.log[Len(hist'.log)].op = "reset"

\* C16: reset leaves an empty buffer and zero counters and does not invoke
\* flushFn (nothing reaches the flush destination in the reset step), and the
\* items that were pending at the reset are in no batch passed to flushFn by
\* any later call.
C16_ResetDiscardsPending ==
  /\ []PendingAtResetNeverFlushed
  /\ [][ResetReturned => (run'.acc[AccTable] = NewAccumulator /\ staging' = staging)]_vars

C16_Witness ==
  /\ \E i \in 1..Len(hist.log) :
       /\ hist.log[i].op = "reset"
       /\ hist.log[i].rows # <<>>
       /\ \E j \in (i + 1)..Len(hist.log) : hist.log[j].op = "flushFn" /\ hist.log[j].ok
       /\ \E j \in 1..(i - 1) : hist.log[j].op = "flushFn" /\ hist.log[j].ok

\* ------------------------------------------------------------------------
\* The router
\* ------------------------------------------------------------------------
\* The destination the contract fixes for each known kind.
FixedDestination(kind) ==
  CASE kind \in {"user", "assistant"} -> "messages_staging"
    [] kind \in {"summary", "custom-title"} -> "sessions_staging"
    [] kind = "progress" -> "progress_events_staging"
    [] kind = "queue-operation" -> "queue_operations_staging"
    [] kind = "system" -> "system_events_staging"
    [] kind = "file-history-snapshot" -> "file_history_staging"

\* C17: routeEntry returns, for each of the eight known kinds, a routed row
\* (never a skip) for the fixed destination of the kind, carrying the input's
\* line number; for any other kind it returns a skip (never a row) recording
\* that kind and the line number; for an input without a kind the skip
\* records 'undefined'.
C17_RouteTotalAndExclusive ==
  \A i \in 1..Len(hist.log) :
    LET e == hist.log[i]
        kind == e.decoded.entry.type
    IN (e.op = "routeEntry") =>
         /\ e.result.lineNum = e.decoded.lineNum
         /\ ("row" \in DOMAIN e.result) # ("entryType" \in DOMAIN e.result)
         /\ (kind \in EntryTypes) =>
              /\ e.result.table = FixedDestination(kind)
              /\ e.result.table \in StagingSet
              /\ "row" \in DOMAIN e.result
         /\ (kind \notin EntryTypes) =>
              /\ e.result.table = "skip"
              /\ "entryType" \in DOMAIN e.result
              /\ e.result.entryType = (IF kind = NULL THEN "undefined" ELSE kind)

\* A custom-title entry was routed to sessions and a kind outside the schema
\* was skipped with its kind recorded.
C17_Witness ==
  /\ pc = "router"
  /\ Len(hist.log) = 2
  /\ hist.log[1].decoded.entry.type = "custom-title"
  /\ hist.log[1].result.table = "sessions_staging"
  /\ hist.log[2].decoded.entry.type = "tool-result"
  /\ hist.log[2].decoded.lineNum = 2
  /\ hist.log[2].result.table = "skip"
  /\ hist.log[2].result.entryType = "tool-result"

\* ------------------------------------------------------------------------
\* Order within one artifact
\* ------------------------------------------------------------------------
StrictlyIncreasing(q) == \A i, j \in 1..Len(q) : i < j => q[i] < q[j]

\* The lines of the rows a destination has received in the current run: the
\* rows passed to its stage insert, then the rows in its accumulator.
ReceivedLines(t) ==
  LET rows == staging[t] \o run.acc[t].items
  IN [i \in 1..Len(rows) |-> rows[i].line]

\* C18: within one run of ingestSession the line numbers the router is called
\* with are strictly increasing, and for each destination the rows passed to
\* its stage insert followed by the rows in its accumulator are in strictly
\* increasing line order (file order).
C18_FileOrder ==
  (run.status # "none" /\ pc # "truncate") =>
    /\ StrictlyIncreasing(run.routed)
    /\ \A t \in StagingSet : StrictlyIncreasing(ReceivedLines(t))

\* Two lines routed to the same destination, the first already passed to the
\* stage insert and the second in the accumulator or passed after it.
C18_Witness ==
  /\ run.status = "running"
  /\ pc = "stream"
  /\ run.routed = <<1, 2>>
  /\ ReceivedLines("messages_staging") = <<1, 2>>

\* ------------------------------------------------------------------------
\* Store errors
\* ------------------------------------------------------------------------
\* The operation tag of the DBError each store step raises.
OperationAt(step) ==
  CASE step = "truncate" -> "truncate"
    [] step \in {"stream", "flushAcc"} -> "insert_staging"
    [] step = "flushAll" -> "transaction"
    [] step = "setCursor" -> "cursor_set"

\* A store operation of the current run raised: the run has failed with that
\* very error, tagged with the operation of the step that raised it.
StoreErrorPropagated ==
  run.raised # None =>
    /\ run.status = "failed"
    /\ pc = "idle"
    /\ run.stats = None
    /\ run.error = Some(run.raised.value.error)
    /\ run.error.value.tag = "DBError"
    /\ run.error.value.operation = OperationAt(run.raised.value.at)

\* While the failed run is the current run, no store operation happens.
NoStoreOperationAfterError ==
  (run.raised # None /\ run'.raised # None) =>
    UNCHANGED <<perm, staging, ingestion_state, run>>

\* C19: whenever truncateAllStaging, a stage insert, flushAllStaging or
\* setCursor raises a DBError during ingestSession, the run fails with that
\* DBError, tagged with its operation, and the run performs no store
\* operation afterwards.
C19_StoreErrorNeverSuppressed ==
  []StoreErrorPropagated /\ [][NoStoreOperationAfterError]_vars

\* setCursor raised after the flush to the permanent store succeeded.
C19_Witness ==
  /\ run.raised # None
  /\ run.raised.value.at = "setCursor"
  /\ run.flushResult # None
  /\ run.status = "failed"
  /\ run.error.value.operation = "cursor_set"

\* The run failed with a DBError of one of its store operations.
FailedWithStoreError ==
  /\ run.status = "failed"
  /\ run.error.value.tag = "DBError"

\* C20: when ingestSession fails with a DBError of truncate, of a stage
\* insert or of the flush to the permanent store, the permanent store equals
\* its contents before the run.  When it fails with the DBError of the cursor
\* set, the flush has already committed: the permanent store holds what the
\* flush of the run's staged rows made of the pre-run contents (nothing is
\* removed, rows of the run may be added), and the cursor is unchanged.
C20_StoreErrorNotPartiallyApplied ==
  FailedWithStoreError =>
    IF run.error.value.operation = "cursor_set"
    THEN /\ run.flushResult # None
         /\ perm = flushAllStaging(Db(run.permBefore, run.stagingAtFlush), 0).db.perm
         /\ \A t \in ProductionSet : run.permBefore[t] \subseteq perm[t]
         /\ ingestion_state = run.cursorBefore
    ELSE perm = run.permBefore

\* The statement for every store operation: after any DBError the permanent
\* store equals its pre-run contents.
C20_PermanentStoreUntouchedByFailedRun ==
  FailedWithStoreError => perm = run.permBefore

\* The flush raised after rows of the run were staged for two destinations.
C20_Witness ==
  /\ FailedWithStoreError
  /\ run.error.value.operation = "transaction"
  /\ run.stagingAtFlush["sessions_staging"] # <<>>
  /\ run.stagingAtFlush["messages_staging"] # <<>>
  /\ perm = run.permBefore

\* ------------------------------------------------------------------------
\* Interleaved runs
\* ------------------------------------------------------------------------
\* Run r succeeded and moved the cursor, it had passed a row of its artifact
\* to the stage insert, and its own flush inserted nothing into the sessions
\* table, which did not hold the row before the run.
CompletedWithoutOwnInsert(r) ==
  /\ r.status = "done"
  /\ r.setCursorInvoked
  /\ r.acc["sessions_staging"].totalFlushed >= 1
  /\ r.flushResult.value[1] = 0
  /\ \A row \in r.permBefore["sessions"] : row.id # r.uuid

\* C21: with two ingestSession runs interleaved on one store, a run can
\* complete successfully and advance the cursor although the rows it staged
\* were not inserted by its own flush; this happens exactly through the
\* shared scratch tables: every such run had a staged row removed by the
\* other run's truncateAllStaging or flushAllStaging while it was running.
C21_LossOnlyThroughSharedScratch ==
  /\ CompletedWithoutOwnInsert(run) => run.robbed
  /\ CompletedWithoutOwnInsert(hist.parked.run) => hist.parked.run.robbed

\* The run of s1 succeeded and set the cursor to s1, its staged row was
\* truncated away by the run of s2, and the permanent store has no row of s1.
C21_Witness ==
  /\ CompletedWithoutOwnInsert(run)
  /\ run.uuid = "s1"
  /\ run.robbed
  /\ ingestion_state # None
  /\ ingestion_state.value.lastSessionId = "s1"
  /\ \A row \in perm["sessions"] : row.id # "s1"
  /\ hist.parked.run.status = "done"

\* ------------------------------------------------------------------------
\* Incremental ingestion
\* ------------------------------------------------------------------------
\* The artifacts of the call in progress in the order they are ingested:
\* those whose run returned, then the one being ingested, then those waiting.
IncrementalOrder ==
  [i \in 1..Len(call.results) |-> call.results[i].sessionId] \o call.queue

\* The candidates: the input artifacts later than the cursor read at the
\* start of the call.
IncrementalCandidates ==
  {call.input[i] : i \in {j \in 1..Len(call.input) :
       call.cursor = None \/ files[call.input[j]].modifiedAt > call.cursor.value.timestamp}}

IncrementalSequential ==
  (call.entry = "ingestIncremental" /\ call.status \in {"running", "done"}
     /\ call.input # <<>>) =>
    /\ {IncrementalOrder[i] : i \in 1..Len(IncrementalOrder)} = IncrementalCandidates
    /\ Len(IncrementalOrder) = Cardinality(IncrementalCandidates)
    /\ \A i, j \in 1..Len(IncrementalOrder) :
         i < j => files[IncrementalOrder[i]].modifiedAt <= files[IncrementalOrder[j]].modifiedAt
    /\ (pc \in {"truncate", "stream", "flushAcc", "flushAll", "setCursor"}) =>
         /\ run.uuid = Head(call.queue)
         /\ Len(call.results) >= 1 =>
              /\ run.prev # None
              /\ run.prev.value.status = "done"
              /\ run.prev.value.uuid = call.results[Len(call.results)].sessionId
              /\ ShouldUpdateCursor(call.config) =>
                   run.cursorBefore =
                     Some(CursorJson(files[run.prev.value.uuid].modifiedAt,
                                     run.prev.value.uuid, 1))

\* ingestIncremental returns an empty result in the step that calls it.
ReturnsEmpty ==
  /\ call' # call
  /\ call'.entry = "ingestIncremental"
  /\ call'.status = "done"
  /\ call'.results = <<>>

\* C22: ingestIncremental ingests exactly the artifacts later than the
\* cursor it read at its start, one at a time in ascending order of
\* modification time: the run of an artifact begins only after the run of
\* the artifact before it has returned (with its cursor set when cursor
\* updates are on); and when no artifact is a candidate it returns an empty
\* result without changing the permanent store, the scratch tables or the
\* cursor.
C22_IncrementalSequentialAscending ==
  /\ []IncrementalSequential
  /\ [][ReturnsEmpty => UNCHANGED <<perm, staging, ingestion_state, run>>]_vars

\* The second artifact of a call, given first in the input and later in
\* modification time, is being ingested after the run of the first returned
\* and set the cursor.
C22_Witness ==
  /\ call.entry = "ingestIncremental"
  /\ pc = "stream"
  /\ Len(call.results) = 1
  /\ Len(call.queue) = 1
  /\ files[call.results[1].sessionId].modifiedAt < files[run.uuid].modifiedAt
  /\ call.input[1] = run.uuid
  /\ run.cursorBefore # None

\* ------------------------------------------------------------------------
\* ingestSessions
\* ------------------------------------------------------------------------
\* The number of artifacts of the call for which a run was started.
RunsStarted == Len(call.results) + (IF call.status = "failed" THEN 1 ELSE 0)

\* C23: when a call of ingestSessions has ended, a run was started for every
\* artifact of its input list, whether or not the run of an earlier artifact
\* failed.
C23_ContinuesAfterFailure ==
  (call.entry = "ingestSessions" /\ pc = "idle" /\ call.status \in {"done", "failed"}) =>
    RunsStarted = Len(call.input)

\* ------------------------------------------------------------------------
\* Scanner
\* ------------------------------------------------------------------------
Elems(q) == {q[i] : i \in 1..Len(q)}
MinOf(a, b) == IF a < b THEN a ELSE b

\* The sessions of a list modified strictly after since (all when absent).
KeptBySince(sessions, since) ==
  {x \in Elems(sessions) : since = None \/ x.modifiedAt > since.value}

\* res is `kept` in ascending order of modification time, cut to its first
\* `len` elements.
IsOldestFirstPrefix(res, kept, len) ==
  /\ Elems(res) \subseteq kept
  /\ \A i, j \in 1..Len(res) : i < j =>
       (res[i] # res[j] /\ res[i].modifiedAt <= res[j].modifiedAt)
  /\ Len(res) = len
  /\ \A x \in Elems(res), y \in kept \ Elems(res) : x.modifiedAt <= y.modifiedAt

\* The length the limit leaves: a limit of 0 is not a limit.
LimitedLength(limit, n) ==
  IF limit = None \/ limit.value = 0 THEN n ELSE MinOf(limit.value, n)

\* The length under a limit that is applied whenever it is given.
LimitedLengthAsGiven(limit, n) ==
  IF limit = None THEN n ELSE MinOf(limit.value, n)

ScanDone == call.entry = "scanDirectory" /\ call.status = "done"

ScanKept == KeptBySince(call.discovered, call.options.since)

ApplyKept(e) ==
  KeptBySince(e.before, e.options.since) \cap
    {x \in Elems(e.before) :
       e.options.projectFilter = None \/ x.projectPathDecoded = e.options.projectFilter.value}

C26_IOErrorNamesFailedOperation ==
  (run.error # None /\ run.error.value.tag = "IOError") =>
    /\ run.error.value.path = run.uuid
    /\ run.error.value.operation = run.error.value.cause.failedAt

\* ------------------------------------------------------------------------
\* The 1-indexed positions, in the file, of the lines that are not blank.
OriginalLineNumbers(raw) ==
  SelectSeq([i \in 1..Len(raw) |-> i], LAMBDA i : raw[i] # BlankLine)

\* C27: every item delivered by streamJSONL carries the original 1-indexed
\* number of its line in the file, also when the file has blank lines.
C27_LineNumIsOriginalLineNumber ==
  (pc = "stream" /\ run.pos > 0) =>
    StreamItems[run.pos].lineNum = OriginalLineNumbers(files[run.uuid].lines)[run.pos]

\* ------------------------------------------------------------------------
\* Migration runner (migrations/runner.ts)
\* ------------------------------------------------------------------------
\* files is the set of entries of the migrations directory; perm holds the
\* tracking table kysely_migration; call holds the locals of runMigrations.
MaxMigrationRuns == 2

\* The directory entries the model draws from, in lexicographic order.
MigrationEntries == <<"001_init.ts", "002_staging.js", "index.ts", "notes.md", "runner.ts">>

EndsWithTsOrJs(f) == f \in {"001_init.ts", "002_staging.js", "index.ts", "runner.ts"}
StartsWithIndex(f) == f = "index.ts"
StartsWithRunner(f) == f = "runner.ts"

\* path.basename(file, path.extname(file))
MigrationName(f) ==
  CASE f = "001_init.ts" -> "001_init"
    [] f = "002_staging.js" -> "002_staging"
    [] f = "index.ts" -> "index"
    [] f = "runner.ts" -> "runner"
    [] OTHER -> "notes"

MigrationNames == {MigrationName(MigrationEntries[i]) : i \in DOMAIN MigrationEntries}

\* Step 3: the entries that are scripts, index and runner left out, sorted.
ReadMigrationFilesOf(entries) ==
  SelectSeq(MigrationEntries,
            LAMBDA f : /\ f \in entries
                       /\ EndsWithTsOrJs(f)
                       /\ ~StartsWithIndex(f)
                       /\ ~StartsWithRunner(f))

MigrationResult(name, status) == [name |-> name, status |-> status]

NoMigrationCall ==
  [entry |-> "runMigrations", status |-> "none", applied |-> {}, files |-> <<>>,
   i |-> 1, results |-> <<>>, error |-> None, invoked |-> <<>>]

InitMigrations ==
  /\ files \in SUBSET {MigrationEntries[i] : i \in DOMAIN MigrationEntries}
  /\ perm = [tracking |-> FALSE, kysely_migration |-> {}]
  /\ staging = <<>>
  /\ ingestion_state = None
  /\ pc = "mig_idle"
  /\ call = NoMigrationCall
  /\ run = NoRun
  /\ hist = [budget |-> MaxMigrationRuns,
             upCompleted |-> [n \in MigrationNames |-> 0],
             reexecuted |-> {}]

\* runMigrations(db, migrationsPath) is invoked.
RunMigrations ==
  /\ pc = "mig_idle"
  /\ hist.budget > 0
  /\ hist' = [hist EXCEPT !.budget = @ - 1]
  /\ call' = [NoMigrationCall EXCEPT !.status = "running"]
  /\ pc' = "mig_table"
  /\ UNCHANGED <<files, perm, staging, ingestion_state, run>>

\* runMigrations fails with a tagged error.
MigrationFail(tag) ==
  /\ call' = [call EXCEPT !.status = "failed", !.error = Some([tag |-> tag])]
  /\ pc' = "mig_idle"

\* Step 1: CREATE TABLE IF NOT EXISTS kysely_migration.
EnsureMigrationTable(dbOk) ==
  /\ pc = "mig_table"
  /\ IF dbOk
     THEN /\ perm' = [perm EXCEPT !.tracking = TRUE]
          /\ pc' = "mig_applied"
          /\ UNCHANGED call
     ELSE /\ MigrationFail("MigrationTableError")
          /\ UNCHANGED perm
  /\ UNCHANGED <<files, staging, ingestion_state, run, hist>>

\* Step 2: SELECT name FROM kysely_migration.
QueryApplied(dbOk) ==
  /\ pc = "mig_applied"
  /\ IF dbOk
     THEN /\ call' = [call EXCEPT !.applied = perm.kysely_migration]
          /\ pc' = "mig_read"
     ELSE MigrationFail("MigrationTableError")
  /\ UNCHANGED <<files, perm, staging, ingestion_state, run, hist>>

\* Step 3: fs.readdir, filter, sort.
ReadMigrationFiles(fsOk) ==
  /\ pc = "mig_read"
  /\ IF fsOk
     THEN /\ call' = [call EXCEPT !.files = ReadMigrationFilesOf(files)]
          /\ pc' = "mig_loop"
     ELSE MigrationFail("MigrationReadError")
  /\ UNCHANGED <<files, perm, staging, ingestion_state, run, hist>>

\* Step 4, a file whose name is in applied: skipped.
SkipApplied ==
  /\ pc = "mig_loop"
  /\ call.i <= Len(call.files)
  /\ LET name == MigrationName(call.files[call.i])
     IN /\ name \in call.applied
        /\ call' = [call EXCEPT !.results = Append(@, MigrationResult(name, "skipped")),
                                !.i = @ + 1]
  /\ UNCHANGED <<files, perm, staging, ingestion_state, pc, run, hist>>

\* Step 4 going on to the next file after a failure.
ExecuteMigrationContinuing(failedAt) ==
  /\ pc = "mig_loop"
  /\ call.i <= Len(call.files)
  /\ LET name == MigrationName(call.files[call.i])
         upInvoked == failedAt # "import"
         upCompleted == failedAt \in {"insert", "none"}
     IN /\ name \notin call.applied
        /\ hist' = [hist EXCEPT
                      !.reexecuted = IF upInvoked /\ hist.upCompleted[name] > 0
                                     THEN @ \cup {name} ELSE @,
                      !.upCompleted[name] = IF upCompleted THEN @ + 1 ELSE @]
        /\ IF failedAt = "none"
           THEN /\ perm' = [perm EXCEPT !.kysely_migration = @ \cup {name}]
                /\ call' = [call EXCEPT !.results = Append(@, MigrationResult(name, "applied")),
                                        !.invoked = Append(@, name),
                                        !.i = @ + 1]
                /\ UNCHANGED pc
           ELSE /\ call' = [call EXCEPT !.results = Append(@, MigrationResult(name, "failed")),
                                        !.invoked = Append(@, name),
                                        !.i = @ + 1]
                /\ UNCHANGED pc
                /\ UNCHANGED perm
  /\ UNCHANGED <<files, staging, ingestion_state, run>>

\* Step 4, a pending file: import, up(db), insert into kysely_migration, in
\* one tryPromise.  failedAt is the step that throws, "none" when none does.
\* A failure becomes a 'failed' result and ends the loop.  call.invoked is
\* the history of the migrations this run started to execute.
ExecuteMigration(failedAt) ==
  /\ pc = "mig_loop"
  /\ call.i <= Len(call.files)
  /\ LET name == MigrationName(call.files[call.i])
         upInvoked == failedAt # "import"
         upCompleted == failedAt \in {"insert", "none"}
     IN /\ name \notin call.applied
        /\ hist' = [hist EXCEPT
                      !.reexecuted = IF upInvoked /\ hist.upCompleted[name] > 0
                                     THEN @ \cup {name} ELSE @,
                      !.upCompleted[name] = IF upCompleted THEN @ + 1 ELSE @]
        /\ IF failedAt = "none"
           THEN /\ perm' = [perm EXCEPT !.kysely_migration = @ \cup {name}]
                /\ call' = [call EXCEPT !.results = Append(@, MigrationResult(name, "applied")),
                                        !.invoked = Append(@, name),
                                        !.i = @ + 1]
                /\ UNCHANGED pc
           ELSE /\ call' = [call EXCEPT !.results = Append(@, MigrationResult(name, "failed")),
                                        !.invoked = Append(@, name),
                                        !.status = "done"]
                /\ pc' = "mig_idle"
                /\ UNCHANGED perm
  /\ UNCHANGED <<files, staging, ingestion_state, run>>

\* The loop is through: return results.
ReturnMigrationResults ==
  /\ pc = "mig_loop"
  /\ call.i > Len(call.files)
  /\ call' = [call EXCEPT !.status = "done"]
  /\ pc' = "mig_idle"
  /\ UNCHANGED <<files, perm, staging, ingestion_state, run, hist>>

NextMigrations ==
  \/ RunMigrations
  \/ \E dbOk \in BOOLEAN : EnsureMigrationTable(dbOk)
  \/ \E dbOk \in BOOLEAN : QueryApplied(dbOk)
  \/ \E fsOk \in BOOLEAN : ReadMigrationFiles(fsOk)
  \/ SkipApplied
  \/ \E failedAt \in {"import", "up", "insert", "none"} : ExecuteMigration(failedAt)
  \/ ReturnMigrationResults

SpecMigrations == InitMigrations /\ [][NextMigrations]_vars

MaxRequests == 5

\* crypto.randomUUID(): the n-th call returns an id no earlier call returned.
JobIds == <<"job1", "job2", "job3", "job4", "job5", "job6">>
randomUUID(n) == JobIds[n + 1]

ProgressFields ==
  {"sessions_discovered", "sessions_processed", "messages_inserted",
   "tool_calls_inserted", "errors"}
ZeroProgress == [f \in ProgressFields |-> 0]

IdleIngestionState ==
  [id |-> "", status |-> "idle", progress |-> ZeroProgress,
   started_at |-> NULL, completed_at |-> NULL, error |-> NULL]

\* The state POST /ingest/start installs.
RunningIngestionState(ingestionId, now) ==
  [id |-> ingestionId, status |-> "running", progress |-> ZeroProgress,
   started_at |-> Some(now), completed_at |-> NULL, error |-> NULL]

\* Object.assign(ingestionState.progress, updates)
ObjectAssign(target, updates) ==
  [f \in DOMAIN target |-> IF f \in DOMAIN updates THEN updates[f] ELSE target[f]]

ProgressUpdates ==
  UNION {[d -> {1}] : d \in SUBSET {"sessions_processed", "errors"}}

Request(op, response) == [op |-> op, seq |-> hist.requests + 1, response |-> response]

Tick == [hist EXCEPT !.requests = @ + 1, !.clock = @ + 1]

InitIngestRoute ==
  /\ files = <<>>
  /\ perm = <<>>
  /\ staging = <<>>
  /\ ingestion_state = None
  /\ pc = "http"
  /\ call = [op |-> "none", seq |-> 0, response |-> NULL]
  /\ run = IdleIngestionState
  /\ hist = [requests |-> 0, clock |-> 0, issued |-> {}]

\* POST /ingest/start with the running check left out.
PostStartUnguarded ==
  /\ pc = "http"
  /\ hist.requests < MaxRequests
  /\ LET ingestionId == randomUUID(Cardinality(hist.issued))
     IN /\ run' = RunningIngestionState(ingestionId, hist.clock)
        /\ call' = Request("start", [ingestion_id |-> ingestionId, status |-> "started"])
        /\ hist' = [Tick EXCEPT !.issued = @ \cup {ingestionId}]
  /\ UNCHANGED <<files, perm, staging, ingestion_state, pc>>

\* POST /ingest/start
PostStart ==
  /\ pc = "http"
  /\ hist.requests < MaxRequests
  /\ IF run.status = "running"
     THEN /\ call' = Request("start", [ingestion_id |-> run.id, status |-> "already_running"])
          /\ hist' = Tick
          /\ UNCHANGED run
     ELSE LET ingestionId == randomUUID(Cardinality(hist.issued))
          IN /\ run' = RunningIngestionState(ingestionId, hist.clock)
             /\ call' = Request("start", [ingestion_id |-> ingestionId, status |-> "started"])
             /\ hist' = [Tick EXCEPT !.issued = @ \cup {ingestionId}]
  /\ UNCHANGED <<files, perm, staging, ingestion_state, pc>>

\* GET /ingest/status
GetStatus ==
  /\ pc = "http"
  /\ hist.requests < MaxRequests
  /\ call' = Request("status",
                     [ingestion_id |-> IF run.id = "" THEN "none" ELSE run.id,
                      status |-> run.status, progress |-> run.progress,
                      started_at |-> run.started_at,
                      completed_at |-> run.completed_at, error |-> run.error])
  /\ hist' = Tick
  /\ UNCHANGED <<files, perm, staging, ingestion_state, pc, run>>

updateIngestionProgress(updates) ==
  /\ pc = "http"
  /\ hist.requests < MaxRequests
  /\ run' = [run EXCEPT !.progress = ObjectAssign(@, updates)]
  /\ call' = Request("updateIngestionProgress", NULL)
  /\ hist' = Tick
  /\ UNCHANGED <<files, perm, staging, ingestion_state, pc>>

\* error is NULL when the argument is left out; "" is falsy like NULL.
completeIngestion(success, error) ==
  /\ pc = "http"
  /\ hist.requests < MaxRequests
  /\ run' = [run EXCEPT !.status = IF success THEN "completed" ELSE "failed",
                        !.completed_at = Some(hist.clock),
                        !.error = IF error \notin {NULL, ""} THEN error ELSE @]
  /\ call' = Request("completeIngestion", NULL)
  /\ hist' = Tick
  /\ UNCHANGED <<files, perm, staging, ingestion_state, pc>>

resetIngestionState ==
  /\ pc = "http"
  /\ hist.requests < MaxRequests
  /\ run' = IdleIngestionState
  /\ call' = Request("resetIngestionState", NULL)
  /\ hist' = Tick
  /\ UNCHANGED <<files, perm, staging, ingestion_state, pc>>

NextIngestRoute ==
  \/ PostStart
  \/ GetStatus
  \/ \E updates \in ProgressUpdates : updateIngestionProgress(updates)
  \/ \E success \in BOOLEAN, error \in {NULL, "", "boom"} : completeIngestion(success, error)
  \/ resetIngestionState

SpecIngestRoute == InitIngestRoute /\ [][NextIngestRoute]_vars

StartHandled == call'.op = "start" /\ call'.seq # call.seq

\* C29: a POST /ingest/start while the status is 'running' answers
\* 'already_running' with the running job's id and leaves ingestionState as
\* it was; a start in any other status puts ingestionState into 'running'
\* with an id never handed out before, zeroed progress and no error.
C29_AtMostOneRunningJob ==
  [][StartHandled =>
       IF run.status = "running"
       THEN /\ call'.response = [ingestion_id |-> run.id, status |-> "already_running"]
            /\ run' = run
       ELSE /\ call'.response.status = "started"
            /\ call'.response.ingestion_id = run'.id
            /\ run'.status = "running"
            /\ run'.id \notin hist.issued \cup {""}
            /\ run'.progress = ZeroProgress
            /\ run'.error = NULL]_vars

\* A second start was refused while the running job had made progress, after
\* an earlier job had failed with an error and been replaced.
C29_Witness ==
  /\ call.op = "start"
  /\ call.response.status = "already_running"
  /\ run.progress # ZeroProgress
  /\ Cardinality(hist.issued) = 2

\* ------------------------------------------------------------------------
OpNames(ops) == [i \in DOMAIN ops |-> ops[i].op]
Positions(ops, op) == {i \in DOMAIN ops : ops[i].op = op}
FlushedTables(ops) == SelectSeq(ops, LAMBDA o : o.op = "flush")

\* truncate; stage inserts; flush() of the seven accumulators in source
\* order, each followed by at most its own stage insert; flushAllStaging;
\* at most one setCursor.
StoreOpsInOrder(ops) ==
  /\ Positions(ops, "truncate") = {1}
  /\ Cardinality(Positions(ops, "flushAll")) = 1
  /\ Cardinality(Positions(ops, "setCursor")) <= 1
  /\ FlushedTables(ops) = [i \in 1..NumTables |-> StoreOp("flush", StagingTables[i])]
  /\ LET firstFlush == CHOOSE i \in Positions(ops, "flush") :
                         \A j \in Positions(ops, "flush") : i <= j
         flushAll == CHOOSE i \in Positions(ops, "flushAll") : TRUE
     IN /\ \A i \in 2..(firstFlush - 1) : ops[i].op = "insert"
        /\ \A i \in firstFlush..(flushAll - 1) :
             \/ ops[i].op = "flush"
             \/ /\ ops[i].op = "insert"
                /\ ops[i - 1] = StoreOp("flush", ops[i].table)
        /\ \A i \in (flushAll + 1)..Len(ops) : ops[i].op = "setCursor"

\* C30: in every successful ingestSession run the store operations occur in
\* the order truncateAllStaging (once, before any stage insert), stage
\* inserts, the forced flush of each of the seven accumulators,
\* flushAllStaging (once), at most one setCursor; and when flushAllStaging
\* begins no accumulator holds a buffered row.
C30_StoreOperationsInOrder ==
  /\ pc = "flushAll" => \A t \in StagingSet : run.acc[t].items = <<>>
  /\ run.status = "done" => StoreOpsInOrder(run.ops)

\* A successful run that staged a row only at the forced flush and then set
\* the cursor.
C30_Witness ==
  /\ run.status = "done"
  /\ \E i \in 2..Len(run.ops) :
       run.ops[i].op = "insert" /\ run.ops[i - 1].op = "flush"
  /\ run.ops[Len(run.ops)].op = "setCursor"

\* ------------------------------------------------------------------------
\* The files of the listing whose name has the UUID format.
MatchedFiles == SelectSeq(hist.listing, LAMBDA f : extractUuid(f) # NULL)

DiscoverEvents ==
  {hist.log[i] : i \in {j \in DOMAIN hist.log : hist.log[j].op = "discoverSession"}}

\* A finished scan accounted for every matched file, as a session or as an
\* error naming the file, and returned its result with those errors.
EveryMatchedFileProcessed ==
  ScanDone =>
    /\ call.result # None
    /\ call.result.value.errors = call.errors
    /\ call.totalDiscovered = Len(MatchedFiles)
    /\ Len(call.discovered) + Len(call.errors) = Len(MatchedFiles)
    /\ {x.mainFile : x \in Elems(call.discovered)} \cup {e.path : e \in Elems(call.errors)}
         = Elems(MatchedFiles)
    /\ \A e \in Elems(call.errors) : e.type = "io_error"

\* discoverSession fails only for an invalid name or a failed stat; a failed
\* side discovery leaves the session with empty or null side data.
SideFailuresDegrade ==
  \A e \in DiscoverEvents :
    /\ extractUuid(e.path) = NULL =>
         e.result = Left(ScanError("invalid_format", e.path))
    /\ (extractUuid(e.path) # NULL /\ ~e.env.stat) =>
         e.result = Left(ScanError("io_error", e.path))
    /\ (extractUuid(e.path) # NULL /\ e.env.stat) =>
         /\ e.result.tag = "Right"
         /\ ~e.env.subagents => e.result.right.subagents = <<>>
         /\ ~e.env.toolResults => e.result.right.toolResults = <<>>
         /\ ~e.env.correlate =>
              (e.result.right.todoFile = NULL /\ e.result.right.debugFile = NULL)

\* C25: a file whose discovery fails is recorded in errors while scanDirectory
\* processes every remaining file and returns successfully; a failure of the
\* subagent, tool-result or side-file discovery never makes discoverSession
\* fail, the session comes back with empty / null side data.
C25_DiscoveryNeverAbortsOnOneFile == EveryMatchedFileProcessed /\ SideFailuresDegrade

\* The first matched file could not be stat'ed, the second one was discovered
\* without its subagents, and the scan returned both.
C25_Witness ==
  /\ ScanDone
  /\ Len(call.errors) = 1
  /\ Len(call.discovered) = 1
  /\ call.errors[1].path = MatchedFiles[1]
  /\ call.discovered[1].subagents = <<>>
  /\ call.result.value.errors = call.errors

\* ------------------------------------------------------------------------
\* C31: for sequential ingestSession runs, also after an aborted run that
\* left staged rows behind, every one of the seven scratch tables is empty
\* once the run's truncateAllStaging has returned.
C31_TruncateEmptiesEveryScratchTable ==
  (pc = "stream" /\ run.pos = 0) => \A t \in StagingSet : staging[t] = <<>>

\* ------------------------------------------------------------------------
\* The pipeline of ingestSession, stage by stage (types.ts step 3)
\* ------------------------------------------------------------------------
\* run counts, for one file of run.total non-blank lines, the lines read from
\* the file, decoded, entered into the tap (totalProcessed) and through
\* their add.  fs.stream delivers the file in chunks of chunkSize bytes, here
\* run.chunkLines lines; splitLines, filter and mapAccum pass a chunk on as a
\* chunk.
MaxPipeLines == 3
MaxChunkLines == 2

\* A read that delivers the whole rest of the file.
ReadWholeFile(read, chunkLines, total) == total

\* The lines read once the next chunk is in.
ReadChunkEnd(read, chunkLines, total) ==
  IF read + chunkLines > total THEN total ELSE read + chunkLines

InitPipeline ==
  /\ files = <<>>
  /\ perm = <<>>
  /\ staging = <<>>
  /\ ingestion_state = None
  /\ pc = "pipe_pull"
  /\ call = NULL
  /\ run \in [resilient : BOOLEAN, batchSize : 1..MaxBatchSize,
              chunkLines : 1..MaxChunkLines, total : 0..MaxPipeLines,
              read : {0}, decoded : {0}, totalProcessed : {0}, added : {0},
              buffered : {0}, inserts : {0}]
  /\ hist = <<>>

\* The tap asks for the next item and no line read so far is left: the next
\* chunk is read.  Stream.map of decodeStreamResilient decodes the chunk
\* before handing it on; Stream.mapEffect of decodeStream decodes an item
\* when it is asked for.
PullChunk ==
  /\ pc = "pipe_pull"
  /\ run.totalProcessed = run.read
  /\ run.read < run.total
  /\ LET end == ReadChunkEnd(run.read, run.chunkLines, run.total)
     IN run' = [run EXCEPT !.read = end,
                           !.decoded = IF run.resilient THEN end ELSE @]
  /\ UNCHANGED <<files, perm, staging, ingestion_state, pc, call, hist>>

\* Strict mode: decodeEntryWithMetadata of the next line of the chunk.
DecodeNext ==
  /\ pc = "pipe_pull"
  /\ ~run.resilient
  /\ run.decoded = run.totalProcessed
  /\ run.decoded < run.read
  /\ run' = [run EXCEPT !.decoded = @ + 1]
  /\ UNCHANGED <<files, perm, staging, ingestion_state, pc, call, hist>>

\* The tap body starts on the next decoded item: totalProcessed++, route,
\* add appends to the buffer.
TapBegin ==
  /\ pc = "pipe_pull"
  /\ run.totalProcessed < run.decoded
  /\ run' = [run EXCEPT !.totalProcessed = @ + 1, !.buffered = @ + 1]
  /\ pc' = "pipe_tap"
  /\ UNCHANGED <<files, perm, staging, ingestion_state, call, hist>>

\* add at the threshold: the stage insert, then the buffer is cleared.
TapStageInsert ==
  /\ pc = "pipe_tap"
  /\ run.buffered >= run.batchSize
  /\ run' = [run EXCEPT !.buffered = 0, !.inserts = @ + 1]
  /\ UNCHANGED <<files, perm, staging, ingestion_state, pc, call, hist>>

\* add returns and the tap body ends.
TapEnd ==
  /\ pc = "pipe_tap"
  /\ run.buffered < run.batchSize
  /\ run' = [run EXCEPT !.added = @ + 1]
  /\ pc' = "pipe_pull"
  /\ UNCHANGED <<files, perm, staging, ingestion_state, call, hist>>

\* Stream.runDrain returns.
PipelineEnd ==
  /\ pc = "pipe_pull"
  /\ run.read = run.total
  /\ run.totalProcessed = run.read
  /\ pc' = "pipe_done"
  /\ UNCHANGED <<files, perm, staging, ingestion_state, call, run, hist>>

NextPipeline ==
  \/ PullChunk
  \/ DecodeNext
  \/ TapBegin
  \/ TapStageInsert
  \/ TapEnd
  \/ PipelineEnd

SpecPipeline == InitPipeline /\ [][NextPipeline]_vars

EmptyFlushStep == pc = "acc_read" /\ Len(AccRef.items) = 0 /\ pc' # pc

LastAccEvent(h) == h.log[Len(h.log)]

\* C33: a flush of an empty accumulator returns a zero result without an
\* error, does not call the flush function and leaves the buffer,
\* totalFlushed and flushCount as they were; insertToStaging with zero rows
\* leaves the database untouched.
C33_EmptyFlushIsNoOp ==
  /\ [][EmptyFlushStep =>
          /\ run' = run
          /\ staging' = staging
          /\ pc' # "acc_flushFn"
          /\ Len(hist'.log) = Len(hist.log) + 1
          /\ LastAccEvent(hist').ok
          /\ LastAccEvent(hist').flushed
          /\ LastAccEvent(hist').rows = <<>>
          /\ LastAccEvent(hist').op # "flushFn"]_vars
  /\ [](\A t \in StagingSet : insertToStaging(staging, t, <<>>) = staging)

\* flush() has returned on an empty buffer, after an earlier flush had
\* emptied it.
C33_Witness ==
  /\ pc = "acc_idle"
  /\ Len(hist.log) > 0
  /\ LastAccEvent(hist) = AccEvent("flush", <<>>, TRUE, TRUE)
  /\ AccRef.items = <<>>
  /\ AccRef.flushCount = 1

\* ------------------------------------------------------------------------
\* flushFn has failed and with it the add or flush in progress.
FlushFnFailedStep == pc = "acc_flushFn" /\ pc' = "acc_idle"

FailedFlushes == {i \in DOMAIN hist.log : hist.log[i].op = "flushFn" /\ ~hist.log[i].ok}

\* The next call of flushFn after log position i, when no reset came first.
NextFlushFn(i) ==
  {j \in DOMAIN hist.log :
     /\ j > i
     /\ hist.log[j].op = "flushFn"
     /\ \A k \in (i + 1)..(j - 1) : hist.log[k].op \notin {"flushFn", "reset"}}

IsPrefix(p, q) == Len(p) <= Len(q) /\ SubSeq(q, 1, Len(p)) = p

\* C34: when flushFn fails during add or flush, the call fails and the
\* buffer (with the item just added), totalFlushed and flushCount are what
\* they were before the attempt; the next flush hands the same items to
\* flushFn again.
C34_FailedFlushKeepsBuffer ==
  /\ [][FlushFnFailedStep =>
          /\ run' = run
          /\ staging' = staging
          /\ AccRef.items = call.batch
          /\ hist'.log = hist.log \o <<AccEvent("flushFn", call.batch, FALSE, FALSE),
                                      AccEvent(call.entry, <<>>, FALSE, FALSE)>>]_vars
  /\ [](\A i \in FailedFlushes : \A j \in NextFlushFn(i) :
          IsPrefix(hist.log[i].rows, hist.log[j].rows))

\* An add failed at the threshold flush; a later flush handed the same items
\* to flushFn and succeeded.
C34_Witness ==
  \E i \in FailedFlushes :
    /\ hist.log[i + 1] = AccEvent("add", <<>>, FALSE, FALSE)
    /\ \E j \in NextFlushFn(i) : hist.log[j].ok /\ hist.log[j].rows = hist.log[i].rows

\* ------------------------------------------------------------------------
EntryRank(f) == CHOOSE i \in DOMAIN MigrationEntries : MigrationEntries[i] = f

\* The names of the results that are not 'skipped', in order.
ExecutedResults ==
  LET kept == SelectSeq(call.results, LAMBDA r : r.status # "skipped")
  IN [i \in DOMAIN kept |-> kept[i].name]

\* C35: runMigrations goes through the migration files in lexicographic
\* order, one result per file; a migration recorded in the tracking table is
\* reported 'skipped' and not executed; a name is recorded only after its
\* up() succeeded; a failed migration is the last result and nothing is
\* executed after it.
C35_SequentialSkipRecordStop ==
  (call.entry = "runMigrations" /\ call.status \in {"running", "done"}) =>
    /\ \A i, j \in DOMAIN call.files :
         i < j => EntryRank(call.files[i]) < EntryRank(call.files[j])
    /\ Len(call.results) <= Len(call.files)
    /\ \A i \in DOMAIN call.results :
         /\ call.results[i].name = MigrationName(call.files[i])
         /\ call.results[i].status = "skipped" <=> call.results[i].name \in call.applied
         /\ call.results[i].status = "failed" =>
              (i = Len(call.results) /\ call.status = "done")
    /\ call.invoked = ExecutedResults
    /\ call.status = "done" =>
         \/ Len(call.results) = Len(call.files)
         \/ call.results[Len(call.results)].status = "failed"
    /\ \A n \in perm.kysely_migration : hist.upCompleted[n] > 0

\* A run that skipped the recorded 001_init, failed on 002_staging and
\* stopped.
C35_Witness ==
  /\ call.status = "done"
  /\ call.results = <<MigrationResult("001_init", "skipped"),
                      MigrationResult("002_staging", "failed")>>
  /\ call.invoked = <<"002_staging">>

\* ------------------------------------------------------------------------
\* C36: skippedByFilter is the number of successfully discovered sessions the
\* since filter excluded, so that totalDiscovered = sessions kept before the
\* limit + errors + skippedByFilter.
C36_SkippedByFilterCountsFiltered ==
  ScanDone =>
    LET r == call.result.value
    IN /\ r.skippedByFilter = Len(call.discovered) - Len(call.sessions)
       /\ r.totalDiscovered = Len(call.sessions) + Len(r.errors) + r.skippedByFilter

\* ------------------------------------------------------------------------
\* Two fibers on one accumulator
\* ------------------------------------------------------------------------
\* The Ref (run.acc) and the scratch tables are shared; pc and call belong to
\* the running fiber, hist.parked holds those of the other one.  A fiber
\* gives way where flushFn suspends, and when it has no call in progress.
InitAccConcurrent ==
  /\ files = [u \in {"s1"} |-> [modifiedAt |-> 1, lines |-> <<>>]]
  /\ perm = EmptyPerm
  /\ staging = EmptyStaging
  /\ ingestion_state = None
  /\ pc = "acc_idle"
  /\ call = NoAccCall
  /\ \E b \in 1..(MaxBatchSize + 1) : run = [NoRun EXCEPT !.config.batchSize = Some(b)]
  /\ hist = [budget |-> MaxOps, flushedOK |-> {}, log |-> <<>>, added |-> 0,
             held |-> {NewAccumulator}, prev |-> NewAccumulator, snapshot |-> None,
             parked |-> [pc |-> "acc_idle", call |-> NoAccCall]]

AccSwitch ==
  /\ pc \in {"acc_idle", "acc_flushFn"}
  /\ hist.parked.pc \in {"acc_idle", "acc_flushFn"}
  /\ pc' = hist.parked.pc
  /\ call' = hist.parked.call
  /\ hist' = [hist EXCEPT !.parked = [pc |-> pc, call |-> call]]
  /\ UNCHANGED <<files, perm, staging, ingestion_state, run>>

NextAccConcurrent ==
  \/ AccAdd
  \/ AccCheck
  \/ AccFlush
  \/ AccDoFlushRead
  \/ \E dbOk \in BOOLEAN : AccFlushFn(dbOk)
  \/ AccFlushUpdate
  \/ AccSwitch

SpecAccConcurrent == InitAccConcurrent /\ [][NextAccConcurrent]_vars

\* How often item k was handed to a flushFn call that succeeded.
RECURSIVE TimesFlushed(_, _)
TimesFlushed(k, i) ==
  IF i = 0 THEN 0
  ELSE TimesFlushed(k, i - 1) +
       (IF /\ hist.log[i].op = "flushFn"
           /\ hist.log[i].ok
           /\ \E j \in DOMAIN hist.log[i].rows : hist.log[i].rows[j] = k
        THEN 1 ELSE 0)

TimesBuffered(k) == Cardinality({j \in DOMAIN AccRef.items : AccRef.items[j] = k})

\* C37: when adds and flushes of two fibers interleave where flushFn
\* suspends, every item given to add has been flushed exactly once or is
\* still in the buffer once both fibers are through.
C37_NoItemLostOrDuplicated ==
  (pc = "acc_idle" /\ hist.parked.pc = "acc_idle") =>
    \A k \in 1..hist.added : TimesFlushed(k, Len(hist.log)) + TimesBuffered(k) = 1

\* ------------------------------------------------------------------------
\* A resilient run has returned its stats.
ResilientRunDone == run.status = "done" /\ ResilientOf(run.config)

\* C38: in the stats of a completed resilient run totalEntriesProcessed =
\* parseErrors + entriesSkipped + totalStagingInserts, and batchCount is the
\* number of stage inserts the run made.
C38_StatsAddUp ==
  ResilientRunDone =>
    LET stats == run.stats.value
    IN /\ stats.totalEntriesProcessed =
            stats.parseErrors + stats.entriesSkipped + stats.totalStagingInserts
       /\ stats.batchCount = Cardinality(Positions(run.ops, "insert"))

\* A completed resilient run with a parse error and a staged row.
C38_Witness ==
  /\ ResilientRunDone
  /\ run.stats.value.parseErrors >= 1
  /\ run.stats.value.totalStagingInserts >= 1
  /\ run.stats.value.batchCount >= 1

\* ------------------------------------------------------------------------
\* The stream items of the run, so far pulled, whose line is JSON of a kind
\* outside the closed set.
UnknownKindPulled ==
  {i \in 1..run.pos : StreamItems[i].line \notin EntryTypes \cup {BadJsonLine}}

MalformedPulled == {i \in 1..run.pos : StreamItems[i].line \notin EntryTypes}

\* C39: a line whose type is outside the eight kinds fails at decode with a
\* ParseError: counted in parseErrors in resilient mode, the end of the run
\* in strict mode.  It never reaches the skip branch of routeEntry, so
\* entriesSkipped is 0 in every run and in every stats record.
C39_UnknownKindIsParseError ==
  run.status # "none" =>
    /\ run.skipped = 0
    /\ run.stats # None => run.stats.value.entriesSkipped = 0
    /\ \A i \in DOMAIN run.routed : StreamItems[run.routed[i]].line \in EntryTypes
    /\ ResilientOf(run.config) => run.parseErrors = Cardinality(MalformedPulled)
    /\ ~ResilientOf(run.config) =>
         \A i \in UnknownKindPulled :
           /\ i = run.pos
           /\ run.status = "failed"
           /\ run.error.value = ParseError(StreamItems[i].lineNum, StreamItems[i].line)

\* A resilient run over a file with a line of an unknown kind returned its
\* stats: one parse error, nothing skipped.
C39_Witness ==
  /\ ResilientRunDone
  /\ UnknownKindPulled # {}
  /\ run.stats.value.parseErrors = Cardinality(UnknownKindPulled)
  /\ run.stats.value.entriesSkipped = 0

====
